---- MODULE Spec2Model ----
(***************************************************************************)
(* Model of the overseer worker (cmd_worker.go): the test executor         *)
(* (runTest and its per-target goroutines), the result/dedup store         *)
(* (notify and the dedup key helpers over redis) and the worker pool       *)
(* (Execute, workerLoop).                                                  *)
(*                                                                         *)
(* Time is the wall clock in whole seconds (time.Now().Unix()); dedup      *)
(* windows are whole seconds, so int64(d / time.Second) is d.              *)
(***************************************************************************)
EXTENDS Integers, Sequences, FiniteSets, TLC

\* ------------------------------------------------------------------ bounds
MaxRetryCount == 2      \* largest worker -retry-count explored
MaxRetriesOpt == 1      \* largest per-test "with retries N" explored
MaxResults == 2         \* results kept in overseer.results before the driver stops
MaxNotifyTicks == 1     \* clock ticks (seconds) one notify call may span
RunHorizon == 1         \* clock horizon of the executor specification
SeqHorizon == 22        \* clock horizon of the sequential dedup specification
RaceHorizon == 1        \* clock horizon of the two-worker dedup specification
PeriodHorizon == 3      \* clock horizon of the period-test specification
StoreHorizon == 3       \* clock horizon of the failing-queue specification
MaxQueue == 2           \* results waiting in overseer.results for the Slack bridge
MaxExpireLen == 3       \* longest `expiration` argument explored, in characters

\* ------------------------------------------------------- program constants
TTLFactor == 10         \* expiry of both dedup keys: DedupDuration*10

None == "none"                         \* a nil string / nil error
Nil == -1                              \* a nil *uint, *int64 or *time.Duration
NoKey == [set |-> FALSE, val |-> 0, exp |-> 0]   \* an absent redis key
ResolveErr(host) == "failed to resolve name " \o host   \* line 1114
Registered == {"http", "k8s-event"}     \* protocol names with a handler

\* protocols.ProtocolHandler: the handler registered under the name, or nil
ProtocolHandler(type) == IF type \in Registered THEN type ELSE None
DedupWindows == {1, 2}                  \* dedup windows (seconds) explored
Slots == {1, 2}                         \* worker slots / workers
TargetIdx == {1, 2}                     \* positions in the targets slice
Inputs == {"in1"}                       \* sanitized input lines

\* resolved addresses: an address with an IPv4 form (To4() != nil) or not
A4 == [ip |-> "10.0.0.1", v4 |-> TRUE]
A6 == [ip |-> "fe80::1", v4 |-> FALSE]
IPLists == {<<>>, <<A4>>, <<A4, A6>>, <<A6, A4>>}

VARIABLES
  now,       \* wall clock, seconds
  flags,     \* workerCmd fields set from the command line
  run,       \* run[w]: the runTest call worker w is in
  flow,      \* flow[w][i]: the goroutine started for targets[i] of run[w]
  cacheT,    \* cacheT[h]: redis key overseer.dedup-cache.<h>
  lastT,     \* lastT[h]: redis key overseer.dedup-last-alert.<h>
  results,   \* redis list overseer.results
  lastExec,  \* history: lastExec[h] is the latest execution handed to notify
  jobs,      \* redis list overseer.jobs
  pool,      \* pool[w]: the goroutines, channels and exit flag of workerLoop w
  sig,       \* an interrupt was delivered (shouldExit.Broadcast() was called)
  proc,      \* the worker process: "running", "exited" or "panicked"
  executed,  \* history: ids of the jobs handed to runTest
  sigHeld,   \* history: ids of the jobs popped and not yet handed to runTest
             \* when the interrupt arrived
  bridge,    \* the Slack bridge: its flags, the results it has still to
             \* read and what it did with the ones it read
  httpTest,  \* one RunTest call of the HTTP handler
  legacy     \* one call of the legacy run_test of core.go

poolVars == <<jobs, pool, sig, proc, executed, sigHeld>>

\* the programs other than the worker
otherVars == <<bridge, httpTest, legacy>>

vars == <<now, flags, run, flow, cacheT, lastT, results, lastExec, poolVars,
          otherVars>>

\* ------------------------------------------------------------ pure helpers
\* Result.Hash(): the fingerprint is computed from the input rule
Hash(input) == input

\* a redis key with expiry: visible until its TTL has elapsed
Live(key) == IF key.set /\ now < key.exp THEN key ELSE NoKey

\* a SET with ten times the expiry the caller asked for
SetKey_Forever(ttl) == [set |-> TRUE, val |-> now, exp |-> now + ttl * TTLFactor]

\* redis SET key <now> EX ttl
SetKey(ttl) == [set |-> TRUE, val |-> now, exp |-> now + ttl]

\* runTest lines 1137-1157: family filter, then MaxTargetsCount cut
\* lines 1137-1148 without the tests of p.IPv4 and p.IPv6
FamilyFilter_IgnoresFlags(ips, f) == ips

FamilyFilter(ips, f) ==
  LET keep(a) == (a.v4 /\ f.IPv4) \/ (~a.v4 /\ f.IPv6)
  IN  SelectSeq(ips, keep)

ToStrings(ips) == [k \in 1..Len(ips) |-> ips[k].ip]

Truncate(targets, maxTargetsCount) ==
  IF maxTargetsCount > 0 /\ Len(targets) > maxTargetsCount
  THEN SubSeq(targets, 1, maxTargetsCount)
  ELSE targets

DeriveTargets(t, f) ==
  Truncate(IF t.resolves THEN ToStrings(FamilyFilter(t.ips, f))
                         ELSE <<t.target>>,
           t.maxTargetsCount)

\* net.LookupIP returned an error
LookupFailed_Never(t) == FALSE

LookupFailed(t) == t.resolves /\ ~t.lookupOk

\* line 1060 without the period-test exception
EffectiveDedup_IgnoresPeriod(t, f) ==
  IF t.dedup = Nil /\ f.DedupDuration > 0 THEN f.DedupDuration ELSE t.dedup

\* runTest line 1060: the worker default dedup window
EffectiveDedup(t, f) ==
  IF t.dedup = Nil /\ t.period = Nil /\ f.DedupDuration > 0
  THEN f.DedupDuration ELSE t.dedup

\* runTest lines 1282-1294: the attempt limit of the non-period path
MaxAttempts(t, f) ==
  IF t.maxRetries /= Nil THEN t.maxRetries + 1
  ELSE IF ~f.Retry THEN 1
  ELSE f.RetryCount

\* ------------------------------------------------------------------ state
\* a nil details pointer
NoDetails == [present |-> FALSE, header |-> "", lines |-> <<>>]

\* a period-test that never hands details on
PeriodDetails_Never(errorStrings) == NoDetails

\* failuresString of lines 1255-1264: nil when no iteration failed, else the
\* header and one "- ..." line per entry of errorStrings
PeriodDetails(errorStrings) ==
  IF Len(errorStrings) > 0
  THEN [present |-> TRUE, header |-> "Period-test errors:",
        lines |-> [k \in 1..Len(errorStrings) |-> "- " \o errorStrings[k]]]
  ELSE NoDetails

NotifyPcs == {"setcache", "getlast", "setlast", "getcache", "clearcache",
              "clearlast", "publish"}

IdleFlow ==
  [pc |-> "idle", attempt |-> 0, c |-> 0, maxAttempts |-> 0,
   result |-> None, target |-> None, time |-> 0,
   isDedup |-> FALSE, recovered |-> FALSE,
   ticks |-> 0,          \* clock ticks seen since notify was entered
   log |-> <<>>,         \* handler invocations and sleeps of this goroutine
   sawLast |-> Nil,      \* what getDeduplicationLastAlertTime returned
   lat |-> Nil,          \* the time this call wrote to last-alert
   pt |-> Nil,           \* the time this call appended its Result
   prev |-> [out |-> "none", at |-> 0],  \* lastExec when notify was entered
   hadCache |-> FALSE,   \* cache-time was present when notify was entered
   hadLast |-> FALSE,    \* last-alert-time was present when notify was entered
   seen |-> 0,           \* length of overseer.results when notify was entered
   supSeen |-> 0,        \* length of overseer.results when last-alert was read
   pub |-> FALSE,        \* this call appended a Result
   pushErr |-> FALSE,    \* the RPush of this call returned an error
   inMetrics |-> FALSE,  \* inside the metrics writes of testEndFn
   readAt |-> Nil,       \* the time last-alert-time was read
   ops |-> {},           \* the dedup key operations this notify call made
   timeEnd |-> 0,        \* period-test: timeStart.Add(periodTestDuration)
   countFail |-> 0,      \* period-test: failed iterations
   countSuccess |-> 0,   \* period-test: passed iterations
   errorStrings |-> <<>>,  \* period-test: one entry per failed iteration
   details |-> NoDetails,  \* the details handed to testEndFn
   wake |-> 0]           \* period-test: when time.Sleep(periodTestSleep) ends

NoTest ==
  [input |-> "in1", type |-> "none", target |-> None, resolves |-> FALSE,
   lookupOk |-> TRUE, ips |-> <<>>, maxTargetsCount |-> 0, dedup |-> Nil,
   maxRetries |-> Nil, period |-> Nil, periodSleep |-> 0,
   periodThreshold |-> Nil]

IdleRun ==
  [active |-> FALSE, tst |-> NoTest, dedup |-> Nil, targets |-> <<>>,
   loopIdx |-> 0, lookupFailed |-> FALSE, returned |-> FALSE,
   base |-> 0,
   fresh |-> FALSE]      \* history: no dedup key of the test when it was entered

\* the value of the range variable `target` that a goroutine reads now: the
\* closures of lines 1208-1362 share the one variable of the for statement
CurTarget(w) == run[w].targets[run[w].loopIdx]

\* hash := testResult.Hash() (line 842)
FlowHash(w) == Hash(run[w].tst.input)

\* notify that returns without publishing a passing test
NotifyRoute_DropsPass(dedup, err) ==
  IF err = None THEN "done"
  ELSE IF dedup = Nil THEN "publish" ELSE "setcache"

\* notify that goes through deduplication whatever the test says
NotifyRoute_Dedups(dedup, err) ==
  IF err /= None THEN "setcache" ELSE "getcache"

\* line 843 with its two branches exchanged
NotifyRoute_Swapped(dedup, err) ==
  IF dedup = Nil THEN "publish"
  ELSE IF err /= None THEN "getcache" ELSE "setcache"

\* where notify goes after building testResult (lines 820-843, 871-873)
NotifyRoute(dedup, err) ==
  IF dedup = Nil THEN "publish"
  ELSE IF err /= None THEN "setcache" ELSE "getcache"

\* ------------------------------------------------ runTest (lines 1052-1392)
\* entry of runTest up to the start of the fan-out loop
RunTestEnter(w, t) ==
  LET d == EffectiveDedup(t, flags)
      entered == [active |-> TRUE, tst |-> t, dedup |-> d,
                  targets |-> IF LookupFailed(t) THEN <<>>
                              ELSE DeriveTargets(t, flags),
                  loopIdx |-> 0, lookupFailed |-> LookupFailed(t),
                  returned |-> FALSE, base |-> Len(results),
                  fresh |-> /\ ~Live(cacheT[Hash(t.input)]).set
                            /\ ~Live(lastT[Hash(t.input)]).set]
  IN  /\ ProtocolHandler(t.type) # None
      /\ run' = [run EXCEPT ![w] = entered]
      /\ flow' = [flow EXCEPT ![w] =
            [i \in TargetIdx |->
               IF i = 1 /\ LookupFailed(t)
               THEN [IdleFlow EXCEPT !.pc = NotifyRoute(d, ResolveErr(t.target)),
                                     !.result = ResolveErr(t.target),
                                     !.target = t.target,
                                     !.time = now,
                                     !.prev = lastExec[Hash(t.input)],
                                     !.hadCache = Live(cacheT[Hash(t.input)]).set,
                                     !.hadLast = Live(lastT[Hash(t.input)]).set,
                                     !.seen = Len(results)]
               ELSE IdleFlow]]
      /\ lastExec' = IF LookupFailed(t)
                     THEN [lastExec EXCEPT ![Hash(t.input)] =
                             [out |-> "fail", at |-> now]]
                     ELSE lastExec

\* runTest for a type without a handler: tmp is nil and the method call
\* tmp.ShouldResolveHostname() of line 1083 is a nil dereference, a run-time
\* panic that nothing recovers
RunTestNoHandler(w, t) ==
  /\ proc = "running" /\ ~run[w].active
  /\ ProtocolHandler(t.type) = None
  /\ run' = [run EXCEPT ![w] = [IdleRun EXCEPT !.tst = t]]
  /\ proc' = "panicked"
  /\ UNCHANGED <<jobs, pool, sig, executed, sigHeld>>
  /\ UNCHANGED <<now, flags, otherVars, flow, cacheT, lastT, results, lastExec>>

\* a fan-out that sends period-tests through the retry loop
Spawn_NoPeriod(w) ==
  /\ run[w].active /\ ~run[w].lookupFailed
  /\ run[w].loopIdx < Len(run[w].targets)
  /\ run' = [run EXCEPT ![w].loopIdx = @ + 1]
  /\ flow' = [flow EXCEPT ![w][run[w].loopIdx + 1] =
        [IdleFlow EXCEPT !.pc = "loop",
                         !.maxAttempts = MaxAttempts(run[w].tst, flags)]]
  /\ UNCHANGED <<poolVars, now, flags, otherVars, cacheT, lastT, results, lastExec>>

\* one iteration of `for _, target := range targets`: go func() {...}()
Spawn(w) ==
  /\ run[w].active /\ ~run[w].lookupFailed
  /\ run[w].loopIdx < Len(run[w].targets)
  /\ run' = [run EXCEPT ![w].loopIdx = @ + 1]
  /\ flow' = [flow EXCEPT ![w][run[w].loopIdx + 1] =
        IF run[w].tst.period /= Nil
        THEN [IdleFlow EXCEPT !.pc = "ploop",
                              !.timeEnd = now + run[w].tst.period]
        ELSE [IdleFlow EXCEPT !.pc = "loop",
                              !.maxAttempts = MaxAttempts(run[w].tst, flags)]]
  /\ UNCHANGED <<poolVars, now, flags, otherVars, cacheT, lastT, results, lastExec>>

\* what tmp.RunTest can return on the given attempt: nil or an error (the
\* errors of consecutive attempts are told apart)
HandlerOutcomes(attempt) == {None, IF attempt % 2 = 1 THEN "e1" ELSE "e2"}

\* one pass of `for attempt < maxAttempts` (lines 1320-1358)
Attempt(w, i) ==
  LET f == flow[w][i] IN
  /\ f.pc = "loop" /\ f.attempt < f.maxAttempts
  /\ \E r \in HandlerOutcomes(f.attempt + 1) :
       flow' = [flow EXCEPT ![w][i] =
         [f EXCEPT !.attempt = IF r = None THEN f.maxAttempts + 1
                                ELSE f.attempt + 1,
                   !.c = f.c + 1,
                   !.result = r,
                   !.log = Append(f.log, [ev |-> "call",
                                          target |-> CurTarget(w),
                                          res |-> r]),
                   !.pc = IF r /= None /\ f.maxAttempts - (f.attempt + 1) > 0
                          THEN "sleep" ELSE "loop"]]
  /\ UNCHANGED <<poolVars, now, flags, otherVars, run, cacheT, lastT, results, lastExec>>

\* tmp.RunTest (line 1328) panics: the goroutine of lines 1208-1362 has no
\* deferred recover, so the Go run time ends the process
HandlerPanic(w, i) ==
  LET f == flow[w][i] IN
  /\ proc = "running"
  /\ f.pc = "loop" /\ f.attempt < f.maxAttempts
  /\ flow' = [flow EXCEPT ![w][i] =
        [f EXCEPT !.c = f.c + 1,
                  !.log = Append(f.log, [ev |-> "panic",
                                         target |-> CurTarget(w),
                                         res |-> "panic"]),
                  !.pc = "panicked"]]
  /\ proc' = "panicked"
  /\ UNCHANGED <<jobs, pool, sig, executed, sigHeld>>
  /\ UNCHANGED <<now, flags, otherVars, run, cacheT, lastT, results, lastExec>>

\* time.Sleep(p.RetryDelay) (line 1355)
Sleep(w, i) ==
  LET f == flow[w][i] IN
  /\ f.pc = "sleep"
  /\ flow' = [flow EXCEPT ![w][i] =
        [f EXCEPT !.pc = "loop",
                  !.log = Append(f.log, [ev |-> "sleep", target |-> None,
                                         res |-> None])]]
  /\ UNCHANGED <<poolVars, now, flags, otherVars, run, cacheT, lastT, results, lastExec>>

\* ------------------------------------ period-test path (lines 1211-1275)
\* "%.2f" of errPercentage*100
Percent(fail, total) ==
  LET h == (fail * 20000 + total) \div (2 * total)
  IN  ToString(h \div 100) \o "." \o
      (IF h % 100 < 10 THEN "0" ELSE "") \o ToString(h % 100)

\* the aggregated result never fails
PeriodResult_GreaterOrEqual(fail, total, threshold) ==
  IF total > 0 /\ fail * 100 >= threshold * total
  THEN ToString(fail) \o " tests failed out of " \o ToString(total)
       \o " (" \o Percent(fail, total) \o "%)"
  ELSE None

\* lines 1252-1270: errPercentage > periodTestThreshold; 0/0 is NaN, and
\* NaN > threshold is false
PeriodResult(fail, total, threshold) ==
  IF total > 0 /\ fail * 100 > threshold * total
  THEN ToString(fail) \o " tests failed out of " \o ToString(total)
       \o " (" \o Percent(fail, total) \o "%)"
  ELSE None

\* one pass of `for time.Now().Before(timeEnd)` up to the sleep
\* (lines 1233-1249)
PeriodIter(w, i) ==
  LET f == flow[w][i]
      t == run[w].tst
  IN
  /\ f.pc = "ploop" /\ now < f.timeEnd
  /\ \E r \in HandlerOutcomes(f.countFail + f.countSuccess + 1) :
       flow' = [flow EXCEPT ![w][i] =
         [f EXCEPT !.countFail = IF r /= None THEN @ + 1 ELSE @,
                   !.countSuccess = IF r = None THEN @ + 1 ELSE @,
                   !.errorStrings =
                      IF r /= None
                      THEN Append(@, "test "
                             \o ToString(f.countFail + f.countSuccess + 1)
                             \o " failed: " \o r)
                      ELSE @,
                   !.log = Append(f.log, [ev |-> "call",
                                          target |-> CurTarget(w),
                                          res |-> r]),
                   !.wake = now + (IF t.periodSleep = 0
                                   THEN flags.PeriodTestSleep
                                   ELSE t.periodSleep),
                   !.pc = "psleep"]]
  /\ UNCHANGED <<poolVars, now, flags, otherVars, run, cacheT, lastT, results, lastExec>>

\* a sleep that returns at once
PeriodSleep_NoWait(w, i) ==
  /\ flow[w][i].pc = "psleep"
  /\ flow' = [flow EXCEPT ![w][i].pc = "ploop"]
  /\ UNCHANGED <<poolVars, now, flags, otherVars, run, cacheT, lastT, results, lastExec>>

\* time.Sleep(periodTestSleep) returns (line 1249), periodTestSleep or more
\* after the invocation began: the time tmp.RunTest itself took (line 1236)
\* comes on top of the sleep
PeriodSleep(w, i) ==
  /\ flow[w][i].pc = "psleep" /\ now >= flow[w][i].wake
  /\ flow' = [flow EXCEPT ![w][i].pc = "ploop"]
  /\ UNCHANGED <<poolVars, now, flags, otherVars, run, cacheT, lastT, results, lastExec>>

\* the period is over: the counts are aggregated (lines 1252-1270)
PeriodEnd(w, i) ==
  LET f == flow[w][i]
      t == run[w].tst
  IN
  /\ f.pc = "ploop" /\ ~(now < f.timeEnd)
  /\ flow' = [flow EXCEPT ![w][i] =
        [f EXCEPT !.c = f.countFail + f.countSuccess,
                  !.result = PeriodResult(f.countFail,
                               f.countFail + f.countSuccess,
                               IF t.periodThreshold /= Nil
                               THEN t.periodThreshold
                               ELSE flags.PeriodTestThreshold),
                  !.details = PeriodDetails(f.errorStrings),
                  !.pc = "pend"]]
  /\ UNCHANGED <<poolVars, now, flags, otherVars, run, cacheT, lastT, results, lastExec>>

\* testEndFn has begun its two writes to the metrics map of runTest, which
\* no lock guards (lines 1057, 1168-1169)
MetricsWrite(w, i) ==
  LET f == flow[w][i] IN
  /\ \/ f.pc = "loop" /\ ~(f.attempt < f.maxAttempts)
     \/ f.pc = "pend"
  /\ ~f.inMetrics
  /\ flow' = [flow EXCEPT ![w][i].inMetrics = TRUE]
  /\ UNCHANGED <<poolVars, now, flags, otherVars, run, cacheT, lastT, results, lastExec>>

\* the loop is left; testEndFn copies the test and enters notify
\* (lines 1272, 1360, 1159-1198, 805-843)
TestEnd(w, i) ==
  LET f == flow[w][i] IN
  /\ \/ f.pc = "loop" /\ ~(f.attempt < f.maxAttempts)
     \/ f.pc = "pend"
  /\ flow' = [flow EXCEPT ![w][i] =
        [f EXCEPT !.target = CurTarget(w),
                  !.inMetrics = FALSE,
                  !.time = now,
                  !.ticks = 0,
                  !.prev = lastExec[FlowHash(w)],
                  !.hadCache = Live(cacheT[FlowHash(w)]).set,
                  !.hadLast = Live(lastT[FlowHash(w)]).set,
                  !.seen = Len(results),
                  !.pc = NotifyRoute(run[w].dedup, f.result)]]
  /\ lastExec' = [lastExec EXCEPT ![FlowHash(w)] =
        [out |-> IF f.result /= None THEN "fail" ELSE "pass", at |-> now]]
  /\ UNCHANGED <<poolVars, now, flags, otherVars, run, cacheT, lastT, results>>

\* ---------------------------------------------- notify (lines 805-909)

\* line 847 that leaves an existing cache-time key as it is
SetCache_KeepsOld(w, i) ==
  /\ flow[w][i].pc = "setcache"
  /\ cacheT' = IF Live(cacheT[FlowHash(w)]).set THEN cacheT
               ELSE [cacheT EXCEPT ![FlowHash(w)] = SetKey(run[w].dedup * TTLFactor)]
  /\ flow' = [flow EXCEPT ![w][i].pc = "getlast",
                          ![w][i].ops = @ \cup {"setcache"}]
  /\ UNCHANGED <<poolVars, now, flags, otherVars, run, lastT, results, lastExec>>

\* p.setDeduplicationCacheTime(hash, DedupDuration*10) (line 847)
SetCache(w, i) ==
  /\ flow[w][i].pc = "setcache"
  /\ cacheT' = [cacheT EXCEPT ![FlowHash(w)] = SetKey(run[w].dedup * TTLFactor)]
  /\ flow' = [flow EXCEPT ![w][i].pc = "getlast",
                          ![w][i].ops = @ \cup {"setcache"}]
  /\ UNCHANGED <<poolVars, now, flags, otherVars, run, lastT, results, lastExec>>

\* line 857: diffLastAlert < dedupDurationSeconds, off by one
DedupSuppress_OffByOne(lastAlertTime, window) == now - lastAlertTime < window - 1

\* line 857: diffLastAlert < dedupDurationSeconds
DedupSuppress(lastAlertTime, window) == now - lastAlertTime < window

\* lines 849-867: read last-alert, suppress or mark as duplicate
GetLast(w, i) ==
  LET f == flow[w][i]
      l == Live(lastT[FlowHash(w)])
  IN
  /\ f.pc = "getlast"
  /\ flow' = [flow EXCEPT ![w][i] =
        LET g == [f EXCEPT !.readAt = now, !.ops = @ \cup {"getlast"},
                           !.supSeen = Len(results)]
        IN
        IF l.set
        THEN IF DedupSuppress(l.val, run[w].dedup)
             THEN [g EXCEPT !.pc = "done", !.sawLast = l.val]
             ELSE [g EXCEPT !.pc = "setlast", !.sawLast = l.val,
                            !.isDedup = TRUE]
        ELSE [g EXCEPT !.pc = "setlast", !.sawLast = Nil]]
  /\ UNCHANGED <<poolVars, now, flags, otherVars, run, cacheT, lastT, results, lastExec>>

\* line 869 without the redis SET
SetLast_NoWrite(w, i) ==
  /\ flow[w][i].pc = "setlast"
  /\ flow' = [flow EXCEPT ![w][i].pc = "publish", ![w][i].lat = now]
  /\ UNCHANGED <<poolVars, now, flags, otherVars, run, cacheT, lastT, results, lastExec>>

\* line 869 that stores the time notify was entered, not the current time
SetLast_EntryTime(w, i) ==
  /\ flow[w][i].pc = "setlast"
  /\ lastT' = [lastT EXCEPT ![FlowHash(w)] =
        [set |-> TRUE, val |-> flow[w][i].time,
         exp |-> flow[w][i].time + run[w].dedup * TTLFactor]]
  /\ flow' = [flow EXCEPT ![w][i].pc = "publish", ![w][i].lat = now,
                          ![w][i].ops = @ \cup {"setlast"}]
  /\ UNCHANGED <<poolVars, now, flags, otherVars, run, cacheT, results, lastExec>>

\* p.setDeduplicationLastAlertTime(hash, DedupDuration*10) (line 869)
SetLast(w, i) ==
  /\ flow[w][i].pc = "setlast"
  /\ lastT' = [lastT EXCEPT ![FlowHash(w)] = SetKey(run[w].dedup * TTLFactor)]
  /\ flow' = [flow EXCEPT ![w][i].pc = "publish", ![w][i].lat = now,
                          ![w][i].ops = @ \cup {"setlast"}]
  /\ UNCHANGED <<poolVars, now, flags, otherVars, run, cacheT, results, lastExec>>

\* lines 873-876 that take every passing test for a recovery
GetCache_AlwaysRecovers(w, i) ==
  /\ flow[w][i].pc = "getcache"
  /\ flow' = [flow EXCEPT ![w][i].pc = "clearcache",
                          ![w][i].ops = @ \cup {"getcache"}]
  /\ UNCHANGED <<poolVars, now, flags, otherVars, run, cacheT, lastT, results, lastExec>>

\* dedupCacheTime := p.getDeduplicationCacheTime(hash) (lines 873-876)
GetCache(w, i) ==
  /\ flow[w][i].pc = "getcache"
  /\ flow' = [flow EXCEPT ![w][i].pc =
        IF Live(cacheT[FlowHash(w)]).set THEN "clearcache" ELSE "publish",
                          ![w][i].ops = @ \cup {"getcache"}]
  /\ UNCHANGED <<poolVars, now, flags, otherVars, run, cacheT, lastT, results, lastExec>>

\* p.clearDeduplicationCacheTime(hash) (line 878)
ClearCache(w, i) ==
  /\ flow[w][i].pc = "clearcache"
  /\ cacheT' = [cacheT EXCEPT ![FlowHash(w)] = NoKey]
  /\ flow' = [flow EXCEPT ![w][i].pc = "clearlast",
                          ![w][i].ops = @ \cup {"clearcache"}]
  /\ UNCHANGED <<poolVars, now, flags, otherVars, run, lastT, results, lastExec>>

\* lines 879-880 without the redis DEL
ClearLast_NoDel(w, i) ==
  /\ flow[w][i].pc = "clearlast"
  /\ flow' = [flow EXCEPT ![w][i].pc = "publish", ![w][i].recovered = TRUE]
  /\ UNCHANGED <<poolVars, now, flags, otherVars, run, cacheT, lastT, results, lastExec>>

\* p.clearDeduplicationLastAlertTime(hash); Recovered = true (lines 879-880)
ClearLast(w, i) ==
  /\ flow[w][i].pc = "clearlast"
  /\ lastT' = [lastT EXCEPT ![FlowHash(w)] = NoKey]
  /\ flow' = [flow EXCEPT ![w][i].pc = "publish", ![w][i].recovered = TRUE,
                          ![w][i].ops = @ \cup {"clearlast"}]
  /\ UNCHANGED <<poolVars, now, flags, otherVars, run, cacheT, results, lastExec>>

\* the test.Result that notify marshals (lines 820-837, 866, 880)
ResultOf(w, i) ==
  LET f == flow[w][i] IN
  [input |-> run[w].tst.input, target |-> f.target, time |-> f.time,
   error |-> f.result, isDedup |-> f.isDedup, recovered |-> f.recovered,
   details |-> f.details,
   lat |-> f.lat, pt |-> now, by |-> w]

\* p._r.RPush("overseer.results", j) (line 902)
Publish(w, i) ==
  /\ flow[w][i].pc = "publish"
  /\ results' = Append(results, ResultOf(w, i))
  /\ flow' = [flow EXCEPT ![w][i].pc = "done", ![w][i].pub = TRUE,
                          ![w][i].pt = now]
  /\ UNCHANGED <<poolVars, now, flags, otherVars, run, cacheT, lastT, lastExec>>

\* p._r.RPush("overseer.results", j) returns an error: notify prints it and
\* returns it (lines 902-906)
PublishFail(w, i) ==
  /\ flow[w][i].pc = "publish"
  /\ flow' = [flow EXCEPT ![w][i].pc = "done", ![w][i].pushErr = TRUE,
                          ![w][i].pt = now]
  /\ UNCHANGED <<poolVars, now, flags, otherVars, run, cacheT, lastT, results, lastExec>>

\* a wg.Wait() that does not wait
FlowsDone_NoWait(w) == TRUE

\* wg.Wait() returns, runTest returns (lines 1365-1391; 1120 after a
\* failed lookup)
FlowsDone(w) ==
  IF run[w].lookupFailed THEN flow[w][1].pc = "done"
  ELSE /\ run[w].loopIdx = Len(run[w].targets)
       /\ \A i \in 1..Len(run[w].targets) : flow[w][i].pc = "done"

RunTestReturn(w) ==
  /\ run[w].active /\ FlowsDone(w)
  /\ run' = [run EXCEPT ![w].active = FALSE, ![w].returned = TRUE]
  /\ UNCHANGED <<poolVars, now, flags, otherVars, flow, cacheT, lastT, results, lastExec>>

\* ------------------------------------------------------------- environment
\* the clock advances by one second; a notify call in progress spans at most
\* MaxNotifyTicks seconds
Tick(horizon) ==
  /\ now < horizon
  /\ \A w \in Slots, i \in TargetIdx :
       flow[w][i].pc \in NotifyPcs => flow[w][i].ticks < MaxNotifyTicks
  /\ now' = now + 1
  /\ flow' = [w \in Slots |-> [i \in TargetIdx |->
        IF flow[w][i].pc \in NotifyPcs
        THEN [flow[w][i] EXCEPT !.ticks = @ + 1] ELSE flow[w][i]]]
  /\ UNCHANGED <<poolVars, flags, otherVars, run, cacheT, lastT, results, lastExec>>

\* a caller hands test t to runTest of worker w
CallRunTest(w, t) ==
  /\ proc = "running"
  /\ ~run[w].active
  /\ Len(results) < MaxResults
  /\ RunTestEnter(w, t)
  /\ UNCHANGED <<poolVars, now, flags, otherVars, cacheT, lastT, results>>

NotifyStep(w, i) ==
  \/ SetCache(w, i) \/ GetLast(w, i) \/ SetLast(w, i)
  \/ GetCache(w, i) \/ ClearCache(w, i) \/ ClearLast(w, i)
  \/ Publish(w, i)

\* ------------------------------------------- tests and worker configurations
TestOf(resolves, ok, ips, mtc, dedup, maxRetries) ==
  [input |-> "in1", type |-> IF resolves THEN "http" ELSE "k8s-event",
   target |-> "host", resolves |-> resolves, lookupOk |-> ok, ips |-> ips,
   maxTargetsCount |-> mtc, dedup |-> dedup, maxRetries |-> maxRetries,
   period |-> Nil, periodSleep |-> 0, periodThreshold |-> Nil]

FlagsOf(retry, retryCount, dedup, v4, v6) ==
  [Retry |-> retry, RetryCount |-> retryCount, DedupDuration |-> dedup,
   IPv4 |-> v4, IPv6 |-> v6, Parallel |-> 1,
   PeriodTestSleep |-> 1,        \* -period-test-sleep, seconds
   PeriodTestThreshold |-> 0]    \* -period-test-threshold, percent

NoJob == [id |-> 0, valid |-> FALSE, fan |-> FALSE]

\* a workerLoop before its goroutines have taken a step (lines 1483-1534)
IdlePool ==
  [watch |-> "start",      \* the goroutine of lines 1489-1499
   pop |-> "recvAvail",    \* the goroutine of lines 1501-1531
   main |-> "sendAvail",   \* the loop of lines 1534-1563
   exit |-> FALSE,
   avail |-> "open",       \* workerAvailableChan
   obj |-> "open",         \* testObjectChan
   held |-> NoJob,         \* testObject of the popper goroutine
   cur |-> NoJob,          \* testObject of the main loop
   atSig |-> FALSE]        \* history: inside runTest at the interrupt

\* ------------------------------------------------------- the Slack bridge
\* the decoded Results the bridge is given: with and without an error,
\* deduplicated or not, recovered or not
BridgeResults ==
  [error : {None, "timeout"}, isDedup : BOOLEAN, recovered : BOOLEAN]

NoBridgeResult == [error |-> None, isDedup |-> FALSE, recovered |-> FALSE]

\* what the bridge did with the last message it read
NoProcessed == [res |-> NoBridgeResult, out |-> "nothing", title |-> None]

NoBridge ==
  [state |-> "off",
   SendTestSuccess |-> FALSE,
   SendTestRecovered |-> FALSE,
   queue |-> <<>>,          \* the messages BLPop has still to return
   posted |-> <<>>,         \* titles of the requests sent to the webhook
   last |-> NoProcessed]

\* shouldSend of process (lines 348-360)
ShouldSend(b, testResult) ==
  IF testResult.error = None
    THEN b.SendTestSuccess \/ (b.SendTestRecovered /\ testResult.recovered)
    ELSE TRUE

\* titleText of process for a Result with an error (lines 369-380)
TitleText(testResult) ==
  IF testResult.recovered THEN ":white_check_mark: *Error Recovered*"
  ELSE IF testResult.isDedup
    THEN ":warning: *Error (deduplicated): " \o testResult.error \o "*"
    ELSE ":warning: *Error: " \o testResult.error \o "*"

\* process (lines 342-498): the Result is dropped, or its title is built
\* and the request sent; the first title is built from *testResult.Error
\* (line 370), a nil dereference for a Result without error
Process(b, testResult) ==
  IF ~ShouldSend(b, testResult)
    THEN [res |-> testResult, out |-> "dropped", title |-> None]
  ELSE IF testResult.error = None
    THEN [res |-> testResult, out |-> "panic", title |-> None]
    ELSE [res |-> testResult, out |-> "posted", title |-> TitleText(testResult)]

\* one round of the loop of main (lines 548-565): BLPop returns the oldest
\* message and process handles it; a panic ends the bridge
BridgeLoop ==
  /\ bridge.state = "running"
  /\ bridge.queue # <<>>
  /\ LET p == Process(bridge, Head(bridge.queue)) IN
     bridge' = [bridge EXCEPT
                  !.queue = Tail(@),
                  !.last = p,
                  !.posted = IF p.out = "posted" THEN Append(@, p.title) ELSE @,
                  !.state = IF p.out = "panic" THEN "panicked" ELSE @]
  /\ UNCHANGED <<now, flags, run, flow, cacheT, lastT, results, lastExec,
                 poolVars, httpTest, legacy>>

\* -------------------------------------------------------- the HTTP handler
\* strings are sequences of characters here
IsDigit(c) == c \in {"0", "1", "2", "3", "4", "5", "6", "7", "8", "9"}

DigitValue(c) ==
  CASE c = "0" -> 0 [] c = "1" -> 1 [] c = "2" -> 2 [] c = "3" -> 3
    [] c = "4" -> 4 [] c = "5" -> 5 [] c = "6" -> 6 [] c = "7" -> 7
    [] c = "8" -> 8 [] c = "9" -> 9

RECURSIVE DecimalValue(_)
DecimalValue(str) ==
  IF str = <<>> THEN 0
  ELSE 10 * DecimalValue(SubSeq(str, 1, Len(str) - 1)) + DigitValue(str[Len(str)])

\* strconv.Atoi on an unsigned argument: an error for the empty string and
\* for any character that is no digit
Atoi(str) ==
  IF str = <<>> \/ \E k \in 1..Len(str) : ~IsDigit(str[k])
    THEN [err |-> TRUE, val |-> 0]
    ELSE [err |-> FALSE, val |-> DecimalValue(str)]

\* strings.HasSuffix(str, c) and strings.Replace(str, c, "", -1) for a
\* one-character c
HasSuffix(str, c) == Len(str) > 0 /\ str[Len(str)] = c

RemoveAll(str, c) == SelectSeq(str, LAMBDA x : x # c)

AnyArg == <<"a", "n", "y">>

\* the period of the expiration check in hours (lines 629-676); the
\* argument is not given (empty) or anything but "any"
ExpirationPeriod(expiration) ==
  IF expiration = <<>> THEN [err |-> FALSE, val |-> 14 * 24]
  ELSE
    LET days == HasSuffix(expiration, "d")
        e1 == IF days THEN RemoveAll(expiration, "d") ELSE expiration
        m1 == IF days THEN 24 ELSE 1
        hrs == HasSuffix(e1, "h")
        e2 == IF hrs THEN RemoveAll(e1, "h") ELSE e1
        mul == IF hrs THEN 1 ELSE m1
        period == Atoi(e2)
    IN IF period.err THEN period
       ELSE [err |-> FALSE, val |-> period.val * mul]

\* the end of RunTest once every other check has passed (lines 625-697):
\* the error it returns, None for nil
ExpirationCheck(t) ==
  IF ~t.https THEN None
  ELSE IF t.expiration = AnyArg THEN None
  ELSE LET period == ExpirationPeriod(t.expiration) IN
       IF period.err THEN "invalid syntax"
       ELSE IF ~t.errExpire /\ t.hours < period.val
         THEN "SSL certificate will expire"
         ELSE None

NoHTTPTest ==
  [state |-> "off",
   https |-> FALSE,        \* tst.Target starts with "https:"
   expiration |-> <<>>,    \* tst.Arguments["expiration"]
   hours |-> 0,            \* what SSLExpiration returns
   errExpire |-> FALSE,
   result |-> None]

\* RunTest, for a page that passes the status and content checks
HTTPRunTest ==
  /\ httpTest.state = "called"
  /\ httpTest' = [httpTest EXCEPT !.state = "returned",
                                  !.result = ExpirationCheck(httpTest)]
  /\ UNCHANGED <<now, flags, run, flow, cacheT, lastT, results, lastExec,
                 poolVars, bridge, legacy>>

\* ------------------------------------------------- the legacy run_test
NoLegacyTest == [target |-> "host", http |-> FALSE, resolves |-> TRUE, ips |-> <<>>]

NoLegacy ==
  [pc |-> "off",
   tst |-> NoLegacyTest,    \* the test; http: its target starts with "http"
   Retry |-> FALSE,         \* opts.Retry
   IPv4 |-> FALSE,          \* opts.IPv4
   IPv6 |-> FALSE,          \* opts.IPv6
   notifier |-> FALSE,      \* notifier != nil
   targets |-> <<>>,
   i |-> 0,                 \* position of `target` in targets
   attempt |-> 0,
   max_attempts |-> 0,
   result |-> None,
   calls |-> <<>>,          \* history: the tmp.RunTest calls
   notified |-> <<>>]       \* history: the notifier.Notify calls

\* targets of run_test (lines 40-78) for a test whose name resolves
LegacyTargets(l) ==
  IF l.tst.http THEN <<l.tst.target>>
  ELSE LET keep(a) == IF a.v4 THEN l.IPv4 ELSE l.IPv6
           kept == SelectSeq(l.tst.ips, keep)
       IN [k \in 1..Len(kept) |-> kept[k].ip]

LegacyMaxAttempts_AlwaysFive(retry) == 5

\* max_attempts of run_test (lines 96-104)
LegacyMaxAttempts(retry) == IF retry THEN 5 ELSE 0 + 1

\* the loop over targets is entered for targets[k], or left (lines 83-104)
LegacyEnter(l, k) ==
  IF k <= Len(l.targets)
    THEN [l EXCEPT !.pc = "loop", !.i = k, !.attempt = 0,
                   !.max_attempts = LegacyMaxAttempts(l.Retry),
                   !.result = None]
    ELSE [l EXCEPT !.pc = "returned"]

\* run_test up to its first handler call: the lookup failed, Notify is
\* called with the test and run_test returns (lines 51-59), or the targets
\* are collected
LegacyStart ==
  /\ legacy.pc = "called"
  /\ IF ~legacy.tst.http /\ ~legacy.tst.resolves
       THEN legacy' =
              [legacy EXCEPT
                 !.pc = "returned",
                 !.notified =
                    IF legacy.notifier
                      THEN Append(@, [i |-> 0, target |-> legacy.tst.target,
                                      res |-> "Failed to resolve name "
                                                \o legacy.tst.target])
                      ELSE @]
       ELSE legacy' =
              LegacyEnter([legacy EXCEPT !.targets = LegacyTargets(legacy)], 1)
  /\ UNCHANGED <<now, flags, run, flow, cacheT, lastT, results, lastExec,
                 poolVars, bridge, httpTest>>

\* one round of `for attempt < max_attempts` (lines 117-146): the handler
\* returns res
LegacyAttempt(res) ==
  /\ legacy.pc = "loop"
  /\ legacy.attempt < legacy.max_attempts
  /\ legacy' =
       [legacy EXCEPT
          !.attempt = IF res = None THEN legacy.max_attempts + 1 ELSE @ + 1,
          !.result = res,
          !.calls = Append(@, [i |-> legacy.i,
                               target |-> legacy.targets[legacy.i],
                               res |-> res])]
  /\ UNCHANGED <<now, flags, run, flow, cacheT, lastT, results, lastExec,
                 poolVars, bridge, httpTest>>

\* the loop is left: Notify gets a copy of the test with the probed target
\* (lines 163-167) and the next target follows
LegacyNotify ==
  /\ legacy.pc = "loop"
  /\ ~(legacy.attempt < legacy.max_attempts)
  /\ legacy' =
       LegacyEnter(
         [legacy EXCEPT
            !.notified =
               IF legacy.notifier
                 THEN Append(@, [i |-> legacy.i,
                                 target |-> legacy.targets[legacy.i],
                                 res |-> legacy.result])
                 ELSE @],
         legacy.i + 1)
  /\ UNCHANGED <<now, flags, run, flow, cacheT, lastT, results, lastExec,
                 poolVars, bridge, httpTest>>

InitStore ==
  /\ now = 0
  /\ run = [w \in Slots |-> IdleRun]
  /\ flow = [w \in Slots |-> [i \in TargetIdx |-> IdleFlow]]
  /\ cacheT = [h \in Inputs |-> NoKey]
  /\ lastT = [h \in Inputs |-> NoKey]
  /\ results = <<>>
  /\ lastExec = [h \in Inputs |-> [out |-> "none", at |-> 0]]

\* the Slack bridge, the HTTP handler and the legacy run_test are programs
\* of their own and take no step in the specifications of the worker
InitOthers ==
  /\ bridge = NoBridge
  /\ httpTest = NoHTTPTest
  /\ legacy = NoLegacy

\* the worker pool is not part of the specifications that call runTest
\* directly
InitNoPool ==
  /\ jobs = <<>>
  /\ pool = [w \in Slots |-> IdlePool]
  /\ sig = FALSE
  /\ proc = "running"
  /\ executed = {}
  /\ sigHeld = {}

\* the worker is idle in the specifications of the other programs
InitWorkerIdle ==
  /\ InitStore /\ InitNoPool
  /\ flags = FlagsOf(FALSE, 5, 0, TRUE, TRUE)

\* ------------------------------------------------ Slack bridge specification
\* the bridge is started with any setting of its two flags and finds one to
\* MaxQueue results in the queue
BridgeQueues ==
  UNION {[1..n -> BridgeResults] : n \in 1..MaxQueue}

InitSlack ==
  /\ InitWorkerIdle
  /\ httpTest = NoHTTPTest
  /\ legacy = NoLegacy
  /\ bridge \in {[NoBridge EXCEPT !.state = "running",
                                  !.SendTestSuccess = s,
                                  !.SendTestRecovered = r,
                                  !.queue = q] :
                    s \in BOOLEAN, r \in BOOLEAN, q \in BridgeQueues}

NextSlack == BridgeLoop

SpecSlack == InitSlack /\ [][NextSlack]_vars

\* ------------------------------------------------ HTTP handler specification
\* RunTest is called for an http or https target, with an expiration
\* argument of digits and unit letters, "any" or none, and a certificate
\* with some hours left
ExpireChars == {"1", "2", "d", "h"}

ExpireArgs ==
  {AnyArg} \cup UNION {[1..n -> ExpireChars] : n \in 0..MaxExpireLen}

CertHours == {0, 1, 2, 20, 30, 300, 335, 336, 600}

InitHTTP ==
  /\ InitWorkerIdle
  /\ bridge = NoBridge
  /\ legacy = NoLegacy
  /\ httpTest \in {[NoHTTPTest EXCEPT !.state = "called",
                                      !.https = s,
                                      !.expiration = e,
                                      !.hours = h,
                                      !.errExpire = x] :
                      s \in BOOLEAN, e \in ExpireArgs, h \in CertHours,
                      x \in BOOLEAN}

NextHTTP == HTTPRunTest

SpecHTTP == InitHTTP /\ [][NextHTTP]_vars

\* -------------------------------------------------- run_test specification
\* run_test is called with an http test, a name that does not resolve or a
\* name with zero to two addresses, any options and with or without notifier
LegacyTests ==
  {[NoLegacyTest EXCEPT !.target = "http://host/", !.http = TRUE],
   [NoLegacyTest EXCEPT !.resolves = FALSE]}
  \cup {[NoLegacyTest EXCEPT !.ips = ips] : ips \in IPLists}

\* what the handler returns
HandlerResults == {None, "connection refused", "timeout"}

InitLegacy ==
  /\ InitWorkerIdle
  /\ bridge = NoBridge
  /\ httpTest = NoHTTPTest
  /\ legacy \in {[NoLegacy EXCEPT !.pc = "called", !.tst = t, !.Retry = r,
                                  !.IPv4 = v4, !.IPv6 = v6, !.notifier = n] :
                    t \in LegacyTests, r \in BOOLEAN, v4 \in BOOLEAN,
                    v6 \in BOOLEAN, n \in BOOLEAN}

NextLegacy ==
  \/ LegacyStart
  \/ \E res \in HandlerResults : LegacyAttempt(res)
  \/ LegacyNotify

SpecLegacy == InitLegacy /\ [][NextLegacy]_vars

\* ------------------------------------------------- executor specification
\* one worker slot; runTest is called with tests that fan out to zero, one
\* or two targets, with and without a dedup window
FanTests ==
  {TestOf(TRUE, TRUE, ips, mtc, d, Nil) :
      ips \in IPLists, mtc \in {0, 1}, d \in {Nil, 1}}
  \cup {TestOf(TRUE, FALSE, <<>>, 0, d, Nil) : d \in {Nil, 1}}
  \cup {TestOf(FALSE, TRUE, <<>>, 0, d, Nil) : d \in {Nil, 1}}

\* a test whose type has no handler
UnknownTests ==
  {[TestOf(FALSE, TRUE, <<>>, 0, Nil, Nil) EXCEPT !.type = "bogus"]}

Init ==
  /\ InitStore /\ InitNoPool /\ InitOthers
  /\ flags \in {FlagsOf(FALSE, 5, 0, v4, v6) : v4 \in BOOLEAN, v6 \in BOOLEAN}

Next ==
  \/ \E t \in FanTests : CallRunTest(1, t)
  \/ \E t \in UnknownTests : RunTestNoHandler(1, t)
  \/ Spawn(1)
  \/ \E i \in TargetIdx : Attempt(1, i) \/ TestEnd(1, i) \/ NotifyStep(1, i)
  \/ RunTestReturn(1)
  \/ Tick(RunHorizon)

Spec == Init /\ [][Next]_vars

\* ---------------------------------------------------- retry specification
\* one worker slot, tests without dedup, every retry configuration
RetriesOpts == {Nil} \cup (0..MaxRetriesOpt)

RetryTests ==
  {TestOf(TRUE, TRUE, ips, 0, Nil, mr) :
      ips \in {<<A4>>, <<A4, A6>>}, mr \in RetriesOpts}

InitRetry ==
  /\ InitStore /\ InitNoPool /\ InitOthers
  /\ flags \in {FlagsOf(r, rc, 0, TRUE, TRUE) :
        r \in BOOLEAN, rc \in 0..MaxRetryCount}

NextRetry ==
  \/ \E t \in RetryTests : CallRunTest(1, t)
  \/ /\ proc = "running"
     /\ \/ Spawn(1)
        \/ \E i \in TargetIdx :
              Attempt(1, i) \/ Sleep(1, i) \/ TestEnd(1, i) \/ Publish(1, i)
        \/ RunTestReturn(1)
  \/ \E i \in TargetIdx : HandlerPanic(1, i)

SpecRetry == InitRetry /\ [][NextRetry]_vars

\* the retry specification with the metrics writes of testEndFn as steps of
\* their own
NextMetrics ==
  \/ NextRetry
  \/ \E i \in TargetIdx : proc = "running" /\ MetricsWrite(1, i)

SpecMetrics == InitRetry /\ [][NextMetrics]_vars

\* ------------------------------------------ sequential dedup specification
\* one worker slot, one test with a dedup window run again and again, each
\* execution finished before the next begins
SeqWindow == 2

SeqTests == {TestOf(FALSE, TRUE, <<>>, 0, SeqWindow, Nil)}

InitSeq ==
  /\ InitStore /\ InitNoPool /\ InitOthers
  /\ flags = FlagsOf(FALSE, 5, 0, TRUE, TRUE)

NextSeq ==
  \/ \E t \in SeqTests : CallRunTest(1, t)
  \/ Spawn(1)
  \/ Attempt(1, 1) \/ TestEnd(1, 1) \/ NotifyStep(1, 1)
  \/ RunTestReturn(1)
  \/ Tick(SeqHorizon)

SpecSeq == InitSeq /\ [][NextSeq]_vars

\* ------------------------------------- unreachable result queue
\* the sequential dedup specification with a result queue whose RPush may
\* fail
NextStoreFail ==
  \/ \E t \in SeqTests : CallRunTest(1, t)
  \/ Spawn(1)
  \/ Attempt(1, 1) \/ TestEnd(1, 1) \/ NotifyStep(1, 1)
  \/ PublishFail(1, 1)
  \/ RunTestReturn(1)
  \/ Tick(StoreHorizon)

SpecStoreFail == InitSeq /\ [][NextStoreFail]_vars

\* ------------------------------------------------ period-test specification
\* one worker slot with and without a default dedup window; period-tests and
\* plain tests, with and without their own dedup window
PeriodTestOf(resolves, dedup, period, threshold) ==
  [TestOf(resolves, TRUE, <<A4, A6>>, 0, dedup, Nil) EXCEPT
     !.period = period, !.periodThreshold = threshold]

PeriodTests ==
  {PeriodTestOf(FALSE, d, p, th) :
     d \in {Nil, 2}, p \in {Nil, 1, 2}, th \in {Nil, 50}}
  \cup {PeriodTestOf(TRUE, Nil, 2, Nil)}
  \cup {[PeriodTestOf(FALSE, Nil, 3, Nil) EXCEPT !.periodSleep = s] :
          s \in {0, 2}}

InitPeriod ==
  /\ InitStore /\ InitNoPool /\ InitOthers
  /\ flags \in {FlagsOf(FALSE, 5, d, TRUE, TRUE) : d \in {0, 1}}

NextPeriod ==
  \/ \E t \in PeriodTests : CallRunTest(1, t)
  \/ Spawn(1)
  \/ \E i \in TargetIdx :
        \/ Attempt(1, i) \/ PeriodIter(1, i) \/ PeriodSleep(1, i)
        \/ PeriodEnd(1, i) \/ TestEnd(1, i) \/ NotifyStep(1, i)
  \/ RunTestReturn(1)
  \/ Tick(PeriodHorizon)

SpecPeriod == InitPeriod /\ [][NextPeriod]_vars

\* ------------------------------------------ two-worker dedup specification
\* two workers execute tests of the same fingerprint at the same time
RaceWindow == 1

RaceTests == {TestOf(FALSE, TRUE, <<>>, 0, RaceWindow, Nil)}

NextRace ==
  \/ \E w \in Slots :
        \/ \E t \in RaceTests : CallRunTest(w, t)
        \/ Spawn(w)
        \/ Attempt(w, 1) \/ TestEnd(w, 1) \/ NotifyStep(w, 1)
        \/ RunTestReturn(w)
  \/ Tick(RaceHorizon)

SpecRace == InitSeq /\ [][NextRace]_vars

\* ------------------------------------- worker pool (lines 1452-1566)
ActiveSlots == 1..flags.Parallel

\* exitLock of slot w is held by the watcher from exitLock.Lock() (1494) to
\* its deferred Unlock; the other goroutines hold it within one step only
ExitLocked(w) == pool[w].watch \in {"close1", "close2"}

\* shouldExit.L is held by a watcher from its wake-up to its return
CondLocked ==
  \E w \in ActiveSlots : pool[w].watch \in {"locked", "close1", "close2"}

\* the jobs a slot has popped and not yet handed to runTest
HeldJobs ==
  {pool[w].held.id : w \in {x \in ActiveSlots : pool[x].pop \in {"check2", "send", "requeue"}}}
  \cup {pool[w].cur.id : w \in {x \in ActiveSlots : pool[x].main = "parse"}}

PoolUnchangedExec == UNCHANGED <<now, flags, otherVars, run, flow, cacheT, lastT, results, lastExec>>

\* the interrupt handler of lines 1455-1462: shouldExit.Broadcast() wakes the
\* watchers that are in Wait()
Signal ==
  /\ proc = "running" /\ ~sig
  /\ sig' = TRUE
  /\ pool' = [w \in Slots |->
        [pool[w] EXCEPT
           !.watch = IF @ = "waiting" THEN "woken" ELSE @,
           !.atSig = (pool[w].main = "running")]]
  /\ sigHeld' = HeldJobs
  /\ UNCHANGED <<jobs, proc, executed>>
  /\ PoolUnchangedExec

\* watcher: shouldExit.L.Lock(); shouldExit.Wait() (lines 1490-1492)
WatchWait(w) ==
  /\ proc = "running" /\ pool[w].watch = "start" /\ ~CondLocked
  /\ pool' = [pool EXCEPT ![w].watch = "waiting"]
  /\ UNCHANGED <<jobs, sig, proc, executed, sigHeld>>
  /\ PoolUnchangedExec

\* watcher: Wait() returns with shouldExit.L locked again
WatchWake(w) ==
  /\ proc = "running" /\ pool[w].watch = "woken" /\ ~CondLocked
  /\ pool' = [pool EXCEPT ![w].watch = "locked"]
  /\ UNCHANGED <<jobs, sig, proc, executed, sigHeld>>
  /\ PoolUnchangedExec

\* watcher: exitLock.Lock(); exit = true (lines 1494-1496)
WatchSetExit(w) ==
  /\ proc = "running" /\ pool[w].watch = "locked"
  /\ pool' = [pool EXCEPT ![w].watch = "close1", ![w].exit = TRUE]
  /\ UNCHANGED <<jobs, sig, proc, executed, sigHeld>>
  /\ PoolUnchangedExec

\* watcher: close(testObjectChan) (line 1497)
WatchCloseObj(w) ==
  /\ proc = "running" /\ pool[w].watch = "close1"
  /\ pool' = [pool EXCEPT ![w].watch = "close2", ![w].obj = "closed"]
  /\ UNCHANGED <<jobs, sig, proc, executed, sigHeld>>
  /\ PoolUnchangedExec

\* watcher: close(workerAvailableChan), deferred unlocks (lines 1498, 1495,
\* 1491)
WatchCloseAvail(w) ==
  /\ proc = "running" /\ pool[w].watch = "close2"
  /\ pool' = [pool EXCEPT ![w].watch = "done", ![w].avail = "closed"]
  /\ UNCHANGED <<jobs, sig, proc, executed, sigHeld>>
  /\ PoolUnchangedExec

\* a popper that does not wait for the main loop's send
AvailRendezvous_NoWait(w) ==
  /\ proc = "running"
  /\ pool[w].pop = "recvAvail" /\ pool[w].avail = "open"
  /\ pool' = [pool EXCEPT ![w].pop = "check1",
                          ![w].main = IF @ = "sendAvail" THEN "recvObj" ELSE @]
  /\ UNCHANGED <<jobs, sig, proc, executed, sigHeld>>
  /\ PoolUnchangedExec

\* main loop and popper meet on workerAvailableChan (lines 1534, 1562, 1502)
AvailRendezvous(w) ==
  /\ proc = "running"
  /\ pool[w].main = "sendAvail" /\ pool[w].pop = "recvAvail"
  /\ pool[w].avail = "open"
  /\ pool' = [pool EXCEPT ![w].main = "recvObj", ![w].pop = "check1"]
  /\ UNCHANGED <<jobs, sig, proc, executed, sigHeld>>
  /\ PoolUnchangedExec

\* main loop: workerAvailableChan <- true on the closed channel panics
MainSendAvailClosed(w) ==
  /\ proc = "running"
  /\ pool[w].main = "sendAvail" /\ pool[w].avail = "closed"
  /\ proc' = "panicked"
  /\ UNCHANGED <<jobs, pool, sig, executed, sigHeld>>
  /\ PoolUnchangedExec

\* popper: `for <-workerAvailableChan` on the closed channel ends the loop
PopAvailClosed(w) ==
  /\ proc = "running"
  /\ pool[w].pop = "recvAvail" /\ pool[w].avail = "closed"
  /\ pool' = [pool EXCEPT ![w].pop = "done"]
  /\ UNCHANGED <<jobs, sig, proc, executed, sigHeld>>
  /\ PoolUnchangedExec

\* popper: the exit check before the pop (lines 1503-1508)
PopCheck1(w) ==
  /\ proc = "running" /\ pool[w].pop = "check1" /\ ~ExitLocked(w)
  /\ pool' = [pool EXCEPT ![w].pop = IF pool[w].exit THEN "done" ELSE "blpop"]
  /\ UNCHANGED <<jobs, sig, proc, executed, sigHeld>>
  /\ PoolUnchangedExec

\* popper: p._r.BLPop(0, "overseer.jobs") returns the head of the list
\* (line 1511)
PopBLPop(w) ==
  /\ proc = "running" /\ pool[w].pop = "blpop" /\ Len(jobs) > 0
  /\ pool' = [pool EXCEPT ![w].pop = "check2", ![w].held = Head(jobs)]
  /\ jobs' = Tail(jobs)
  /\ UNCHANGED <<sig, proc, executed, sigHeld>>
  /\ PoolUnchangedExec

\* popper: the exit check after the pop (lines 1513-1528)
PopCheck2(w) ==
  /\ proc = "running" /\ pool[w].pop = "check2" /\ ~ExitLocked(w)
  /\ pool' = [pool EXCEPT ![w].pop = IF pool[w].exit THEN "requeue" ELSE "send"]
  /\ UNCHANGED <<jobs, sig, proc, executed, sigHeld>>
  /\ PoolUnchangedExec

\* popper: RPush("overseer.jobs", testObject[1]); return (lines 1516-1526)
PopRequeue(w) ==
  /\ proc = "running" /\ pool[w].pop = "requeue"
  /\ jobs' = Append(jobs, pool[w].held)
  /\ pool' = [pool EXCEPT ![w].pop = "done", ![w].held = NoJob]
  /\ UNCHANGED <<sig, proc, executed, sigHeld>>
  /\ PoolUnchangedExec

\* popper and main loop meet on testObjectChan (lines 1529, 1535)
ObjRendezvous(w) ==
  /\ proc = "running"
  /\ pool[w].pop = "send" /\ pool[w].main = "recvObj"
  /\ pool[w].obj = "open"
  /\ pool' = [pool EXCEPT ![w].pop = "recvAvail", ![w].main = "parse",
                          ![w].cur = pool[w].held, ![w].held = NoJob]
  /\ UNCHANGED <<jobs, sig, proc, executed, sigHeld>>
  /\ PoolUnchangedExec

\* popper: testObjectChan <- testObject on the closed channel panics
PopSendClosed(w) ==
  /\ proc = "running"
  /\ pool[w].pop = "send" /\ pool[w].obj = "closed"
  /\ proc' = "panicked"
  /\ UNCHANGED <<jobs, pool, sig, executed, sigHeld>>
  /\ PoolUnchangedExec

\* main loop: `range testObjectChan` on the closed channel ends the loop and
\* workerLoop returns (lines 1535, 1565)
MainObjClosed(w) ==
  /\ proc = "running"
  /\ pool[w].main = "recvObj" /\ pool[w].obj = "closed"
  /\ pool' = [pool EXCEPT ![w].main = "exited"]
  /\ UNCHANGED <<jobs, sig, proc, executed, sigHeld>>
  /\ PoolUnchangedExec

\* the test a valid job line parses to: its target is probed as it is, or
\* is a host name that resolves to two addresses
PoolTest(job) ==
  IF job.fan THEN TestOf(TRUE, TRUE, <<A4, A6>>, 0, Nil, Nil)
  ELSE TestOf(FALSE, TRUE, <<>>, 0, Nil, Nil)

\* a main loop that pushes a payload the parser rejected back to the queue
MainParse_Requeues(w) ==
  /\ proc = "running" /\ pool[w].main = "parse"
  /\ IF pool[w].cur.valid
     THEN /\ RunTestEnter(w, PoolTest(pool[w].cur))
          /\ pool' = [pool EXCEPT ![w].main = "running"]
          /\ executed' = executed \cup {pool[w].cur.id}
          /\ UNCHANGED jobs
     ELSE /\ pool' = [pool EXCEPT ![w].main = "check3", ![w].cur = NoJob]
          /\ jobs' = Append(jobs, pool[w].cur)
          /\ UNCHANGED <<run, flow, lastExec, executed>>
  /\ UNCHANGED <<sig, proc, sigHeld, now, flags, otherVars, cacheT, lastT, results>>

\* main loop: parse.ParseLine, then p.runTest (lines 1543-1554)
MainParse(w) ==
  /\ proc = "running" /\ pool[w].main = "parse"
  /\ IF pool[w].cur.valid
     THEN /\ RunTestEnter(w, PoolTest(pool[w].cur))
          /\ pool' = [pool EXCEPT ![w].main = "running"]
          /\ executed' = executed \cup {pool[w].cur.id}
     ELSE /\ pool' = [pool EXCEPT ![w].main = "check3", ![w].cur = NoJob]
          /\ UNCHANGED <<run, flow, lastExec, executed>>
  /\ UNCHANGED <<jobs, sig, proc, sigHeld, now, flags, otherVars, cacheT, lastT, results>>

\* main loop: p.runTest has returned (line 1548)
MainRunDone(w) ==
  /\ proc = "running" /\ pool[w].main = "running" /\ run[w].returned
  /\ pool' = [pool EXCEPT ![w].main = "check3", ![w].cur = NoJob]
  /\ UNCHANGED <<jobs, sig, proc, executed, sigHeld>>
  /\ PoolUnchangedExec

\* main loop: the exit check after a job (lines 1556-1561)
MainCheck3(w) ==
  /\ proc = "running" /\ pool[w].main = "check3" /\ ~ExitLocked(w)
  /\ pool' = [pool EXCEPT ![w].main = IF pool[w].exit THEN "exited"
                                      ELSE "sendAvail"]
  /\ UNCHANGED <<jobs, sig, proc, executed, sigHeld>>
  /\ PoolUnchangedExec

\* Execute: wg.Wait() returns when every workerLoop has returned; the
\* process ends with its remaining goroutines (lines 1475-1477)
ExecuteReturn ==
  /\ proc = "running"
  /\ \A w \in ActiveSlots : pool[w].main = "exited"
  /\ proc' = "exited"
  /\ UNCHANGED <<jobs, pool, sig, executed, sigHeld>>
  /\ PoolUnchangedExec

\* the goroutines of runTest while the process is alive
PoolRunStep(w) ==
  /\ proc = "running"
  /\ \/ Spawn(w)
     \/ \E i \in TargetIdx : Attempt(w, i) \/ TestEnd(w, i) \/ Publish(w, i)
     \/ RunTestReturn(w)

WorkerLoopStep(w) ==
  \/ WatchWait(w) \/ WatchWake(w) \/ WatchSetExit(w)
  \/ WatchCloseObj(w) \/ WatchCloseAvail(w)
  \/ AvailRendezvous(w) \/ MainSendAvailClosed(w) \/ PopAvailClosed(w)
  \/ PopCheck1(w) \/ PopBLPop(w) \/ PopCheck2(w) \/ PopRequeue(w)
  \/ ObjRendezvous(w) \/ PopSendClosed(w) \/ MainObjClosed(w)
  \/ MainParse(w) \/ MainRunDone(w) \/ MainCheck3(w)

\* the job lines in overseer.jobs when the worker starts
JobOf(id, valid) == [id |-> id, valid |-> valid, fan |-> FALSE]

\* the values of -parallel explored
ParallelOpts == {1, 2}

InitialJobs ==
  {<<>>, <<JobOf(1, TRUE)>>, <<JobOf(1, TRUE), JobOf(2, TRUE)>>,
   <<JobOf(1, FALSE), JobOf(2, TRUE)>>}

\* job lines whose first test fans out to two targets
FanJobs ==
  {<<[JobOf(1, TRUE) EXCEPT !.fan = TRUE]>>,
   <<[JobOf(1, TRUE) EXCEPT !.fan = TRUE], JobOf(2, TRUE)>>}

InitPool ==
  /\ InitStore /\ InitOthers
  /\ \E n \in ParallelOpts :
       /\ flags = [FlagsOf(FALSE, 5, 0, TRUE, TRUE) EXCEPT !.Parallel = n]
       /\ jobs \in InitialJobs \cup (IF n = 1 THEN FanJobs ELSE {})
  /\ pool = [w \in Slots |-> IdlePool]
  /\ sig = FALSE
  /\ proc = "running"
  /\ executed = {}
  /\ sigHeld = {}

NextPool ==
  \/ Signal
  \/ \E w \in ActiveSlots : WorkerLoopStep(w) \/ PoolRunStep(w)
  \/ ExecuteReturn

SpecPool == InitPool /\ [][NextPool]_vars

\* the Go scheduler runs every goroutine that can take a step; the interrupt
\* is up to the environment
SpecPoolLive ==
  /\ SpecPool
  /\ \A w \in Slots : WF_vars(w \in ActiveSlots /\ WorkerLoopStep(w))
  /\ \A w \in Slots : WF_vars(w \in ActiveSlots /\ PoolRunStep(w))
  /\ WF_vars(ExecuteReturn)

\* ================================================================ claims
Range(s) == {s[k] : k \in 1..Len(s)}

IsCall(e) == e.ev = "call"
\* the handler invocations a goroutine made, in order
Calls(f) == SelectSeq(f.log, IsCall)

IsAlert(r) == r.error /= None

\* the Results appended since worker w entered runTest
PublishedBy(w) == SubSeq(results, run[w].base + 1, Len(results))

\* ---- C1
\* C1 as stated: when runTest has returned for a test whose probed targets
\* are a1..an, the call has appended exactly n Results and the target of
\* each is one of a1..an.
C1_Original ==
  (run[1].returned /\ ~run[1].lookupFailed) =>
     /\ Len(PublishedBy(1)) = Len(run[1].targets)
     /\ \A r \in Range(PublishedBy(1)) : r.target \in Range(run[1].targets)

\* C1 amended: the same for a test that has no dedup window (explicit or
\* worker default); with a window a failing target may be suppressed.
C1_OneResultPerTarget ==
  (run[1].returned /\ ~run[1].lookupFailed /\ run[1].dedup = Nil) =>
     /\ Len(PublishedBy(1)) = Len(run[1].targets)
     /\ \A r \in Range(PublishedBy(1)) : r.target \in Range(run[1].targets)

C1_Witness ==
  /\ run[1].returned /\ ~run[1].lookupFailed /\ run[1].dedup = Nil
  /\ Len(run[1].targets) = 2
  /\ Len(PublishedBy(1)) = 2

\* ---- C2
\* the retries a test is entitled to: its own maxRetries, else -retry-count
EffRetries(w) ==
  IF run[w].tst.maxRetries /= Nil THEN run[w].tst.maxRetries
  ELSE flags.RetryCount

\* C2: every finished non-period goroutine has invoked the handler at least
\* once and at most 1+maxRetries times, and never again after a success.
C2_InvocationBounds ==
  \A i \in TargetIdx :
    flow[1][i].pc = "done" =>
      LET calls == Calls(flow[1][i]) IN
      /\ Len(calls) >= 1
      /\ Len(calls) <= 1 + EffRetries(1)
      /\ \A k \in 1..(Len(calls) - 1) : calls[k].res /= None

\* ---- C8
\* C8: the attempt limit is 1 + maxRetries when the test sets it, else
\* 1 + retry-count, and 1 when -retry is disabled; with -retry disabled a
\* failing test is invoked exactly once.
C8_AttemptLimit ==
  \A i \in TargetIdx :
    /\ flow[1][i].pc \notin {"idle"} =>
         flow[1][i].maxAttempts =
            (IF ~flags.Retry THEN 1 ELSE 1 + EffRetries(1))
    /\ (flow[1][i].pc = "done" /\ ~flags.Retry /\ flow[1][i].result /= None)
         => Len(Calls(flow[1][i])) = 1

\* ---- C9
\* a sleep is logged only right after a failed invocation and is followed by
\* the next invocation
SleepsBetweenAttempts(f) ==
  \A k \in 1..Len(f.log) :
    f.log[k].ev = "sleep" =>
      /\ k > 1 /\ f.log[k-1].ev = "call" /\ f.log[k-1].res /= None
      /\ k < Len(f.log) /\ f.log[k+1].ev = "call"

\* C9: a published non-period Result has an error iff every attempt failed,
\* and then the last attempt's error; a Result without error follows a
\* success on the last attempt k with attempts = k; sleeps lie only between
\* a failed attempt and the next one.
C9_ResultOfAttempts ==
  \A i \in TargetIdx :
    (flow[1][i].pc = "done" /\ flow[1][i].pub) =>
      LET f == flow[1][i]
          calls == Calls(f)
      IN
      /\ (f.result /= None) <=> (\A k \in 1..Len(calls) : calls[k].res /= None)
      /\ f.result /= None => (Len(calls) >= 1 /\ f.result = calls[Len(calls)].res)
      /\ f.result = None =>
           (Len(calls) >= 1 /\ calls[Len(calls)].res = None /\ f.c = Len(calls))
      /\ SleepsBetweenAttempts(f)

\* ---- C3
SeqTTL == SeqWindow * TTLFactor

\* C3 as stated: within a run of alerts with no success in between, only the
\* first has isDedup=false, every later one has isDedup=true, and consecutive
\* alerts are at least one window apart.
C3_Original ==
  \A k \in 1..Len(results) :
    IsAlert(results[k]) =>
      /\ (k = 1 \/ ~IsAlert(results[k-1])) => ~results[k].isDedup
      /\ (k > 1 /\ IsAlert(results[k-1])) =>
            /\ results[k].isDedup
            /\ results[k].lat - results[k-1].lat >= SeqWindow

\* C3 amended: the same as long as each alert is published before the
\* last-alert-time key of the previous alert expires (10 windows after it was
\* written) and the run starts with no last-alert-time key (at the start or
\* after a recovery); the distance is measured between the last-alert-time
\* stamps of the alerts.
C3_DedupWithinTTL ==
  \A k \in 1..Len(results) :
    IsAlert(results[k]) =>
      /\ (k = 1 \/ results[k-1].recovered) => ~results[k].isDedup
      /\ (k > 1 /\ IsAlert(results[k-1])
               /\ results[k].pt < results[k-1].lat + SeqTTL) =>
            /\ results[k].isDedup
            /\ results[k].lat - results[k-1].lat >= SeqWindow

C3_Witness ==
  /\ Len(results) >= 2
  /\ IsAlert(results[1]) /\ ~results[1].isDedup
  /\ IsAlert(results[2]) /\ results[2].isDedup
  /\ results[2].pt < results[1].lat + SeqTTL
  /\ results[2].lat - results[1].lat >= SeqWindow

\* ---- C4
\* C4 as stated: a passing execution that follows a failing one publishes
\* one Result with recovered=true and no error, and leaves both keys absent.
C4_Original ==
  LET f == flow[1][1] IN
  (f.pc = "done" /\ run[1].dedup /= Nil /\ f.result = None
     /\ f.prev.out = "fail") =>
       /\ f.pub /\ f.recovered
       /\ ~Live(cacheT[FlowHash(1)]).set
       /\ ~Live(lastT[FlowHash(1)]).set

\* C4 amended: the same when the passing execution is published before the
\* cache-time key of the latest failure expires (10 windows after it).
C4_RecoveryWithinTTL ==
  LET f == flow[1][1] IN
  (f.pc = "done" /\ run[1].dedup /= Nil /\ f.result = None
     /\ f.prev.out = "fail" /\ f.pt < f.prev.at + SeqTTL) =>
       /\ f.pub /\ f.recovered
       /\ ~Live(cacheT[FlowHash(1)]).set
       /\ ~Live(lastT[FlowHash(1)]).set

C4_Witness ==
  LET f == flow[1][1] IN
  /\ f.pc = "done" /\ f.result = None /\ f.prev.out = "fail"
  /\ f.pt < f.prev.at + SeqTTL
  /\ f.pub /\ f.recovered
  /\ results[Len(results)].recovered /\ results[Len(results)].error = None

\* ---- C10
\* C10 as stated: a failing execution that found no cache-time key is
\* published with isDedup=false and leaves both keys set.
C10_Original ==
  LET f == flow[1][1] IN
  (f.pc = "done" /\ run[1].dedup /= Nil /\ f.result /= None /\ ~f.hadCache) =>
       /\ f.pub /\ ~f.isDedup
       /\ now = f.pt => (Live(cacheT[FlowHash(1)]).set
                         /\ Live(lastT[FlowHash(1)]).set)

\* C10 amended: a failing execution that found no last-alert-time key is
\* published with isDedup=false and leaves both keys set.
C10_FreshAlert ==
  LET f == flow[1][1] IN
  (f.pc = "done" /\ run[1].dedup /= Nil /\ f.result /= None /\ ~f.hadLast) =>
       /\ f.pub /\ ~f.isDedup
       /\ now = f.pt => (Live(cacheT[FlowHash(1)]).set
                         /\ Live(lastT[FlowHash(1)]).set)

C10_Witness ==
  LET f == flow[1][1] IN
  /\ f.pc = "done" /\ f.result /= None /\ ~f.hadLast /\ f.hadCache
  /\ f.pub /\ ~f.isDedup /\ now = f.pt
  /\ Live(cacheT[FlowHash(1)]).set /\ Live(lastT[FlowHash(1)]).set

\* ---- C6, C7
\* no notify call is between its first key operation and its return
Quiescent ==
  \A w \in Slots, i \in TargetIdx : flow[w][i].pc \notin NotifyPcs

C7_NoMissedRecovery ==
  Quiescent =>
    \A w \in Slots :
      LET f == flow[w][1] IN
      (f.pc = "done" /\ run[w].dedup /= Nil /\ f.result = None
         /\ f.seen >= 1 /\ IsAlert(results[f.seen])) =>
        \E j \in (f.seen+1)..Len(results) : results[j].recovered

\* ---- C5
\* C5: once the worker has ended (Execute returned or the process died),
\* every job that had been popped and not yet handed to runTest when the
\* interrupt arrived is back in overseer.jobs (a job that was executed after
\* all is not counted as lost).
C5_RequeuedOnShutdown ==
  proc /= "running" =>
    \A id \in sigHeld :
      \/ \E k \in 1..Len(jobs) : jobs[k].id = id
      \/ id \in executed

\* ---- C11, C12
\* the cache-time key holds a value this notify call wrote
CacheRefreshedBy(f, w) ==
  LET c == cacheT[FlowHash(w)] IN
  /\ c.set /\ f.time <= c.val /\ c.val <= f.readAt
  /\ c.exp = c.val + run[w].dedup * TTLFactor

\* C11: a failing execution with a dedup window that found cache-time
\* present and read a last-alert-time younger than the window has published
\* nothing, has refreshed cache-time and has done nothing else: last-alert-time
\* and overseer.results are as it found them.
C11_SuppressFrame ==
  LET f == flow[1][1] IN
  (f.pc = "done" /\ run[1].dedup /= Nil /\ f.result /= None /\ f.hadCache
     /\ f.sawLast /= Nil /\ f.readAt - f.sawLast < run[1].dedup) =>
       /\ ~f.pub /\ Len(results) = f.seen
       /\ f.ops = {"setcache", "getlast"}
       /\ CacheRefreshedBy(f, 1)
       /\ lastT[FlowHash(1)].set /\ lastT[FlowHash(1)].val = f.sawLast

C11_Witness ==
  LET f == flow[1][1] IN
  /\ f.pc = "done" /\ f.result /= None /\ f.hadCache
  /\ f.sawLast /= Nil /\ f.readAt - f.sawLast < run[1].dedup
  /\ ~f.pub /\ Len(results) = 1
  /\ cacheT[FlowHash(1)].val > lastT[FlowHash(1)].val

\* C12: a failing execution with a dedup window that found cache-time
\* present and read a last-alert-time at least one window old has published
\* its Result with isDedup=true, has refreshed cache-time and has set
\* last-alert-time to the time of the write.
C12_DedupedAlert ==
  LET f == flow[1][1] IN
  (f.pc = "done" /\ run[1].dedup /= Nil /\ f.result /= None /\ f.hadCache
     /\ f.sawLast /= Nil /\ f.readAt - f.sawLast >= run[1].dedup) =>
       /\ f.pub /\ Len(results) = f.seen + 1
       /\ results[Len(results)].isDedup
       /\ results[Len(results)].error = f.result
       /\ CacheRefreshedBy(f, 1)
       /\ lastT[FlowHash(1)].set /\ lastT[FlowHash(1)].val = f.lat
       /\ f.readAt <= f.lat /\ f.lat <= f.pt

C12_Witness ==
  LET f == flow[1][1] IN
  /\ f.pc = "done" /\ f.result /= None /\ f.hadCache
  /\ f.sawLast /= Nil /\ f.readAt - f.sawLast >= run[1].dedup
  /\ f.pub /\ results[Len(results)].isDedup
  /\ lastT[FlowHash(1)].val = f.lat /\ f.lat > f.time

\* ---- C13
\* C13 as stated: a passing execution with a dedup window that found no
\* cache-time key publishes no Result and leaves the dedup keys untouched.
C13_Original ==
  LET f == flow[1][1] IN
  (f.pc = "done" /\ run[1].dedup /= Nil /\ f.result = None /\ ~f.hadCache) =>
       /\ ~f.pub
       /\ f.ops \subseteq {"getcache"}

\* C13 amended: such an execution publishes one plain success Result (no
\* error, isDedup=false, recovered=false); its only dedup key operation is
\* the read of cache-time.
C13_PlainSuccess ==
  LET f == flow[1][1] IN
  (f.pc = "done" /\ run[1].dedup /= Nil /\ f.result = None /\ ~f.hadCache) =>
       /\ f.pub /\ Len(results) = f.seen + 1
       /\ results[Len(results)].error = None
       /\ ~results[Len(results)].isDedup
       /\ ~results[Len(results)].recovered
       /\ f.ops = {"getcache"}

C13_Witness ==
  LET f == flow[1][1] IN
  /\ f.pc = "done" /\ run[1].dedup /= Nil /\ f.result = None /\ ~f.hadCache
  /\ f.pub /\ f.ops = {"getcache"}
  /\ results[Len(results)].error = None /\ ~results[Len(results)].recovered

\* ---- C14
\* neither the test nor the worker gives the running test a dedup window
NoDedupApplies(w) ==
  /\ run[w].tst.dedup = Nil
  /\ ~(run[w].tst.period = Nil /\ flags.DedupDuration > 0)

\* C14: while and after runTest runs a test to which no dedup window
\* applies, no goroutine of it has made a dedup key operation, every finished
\* goroutine has published its Result, failed or not, and when runTest has
\* returned there is one Result per probed target.
C14_NoDedupPublishesAll ==
  ((run[1].active \/ run[1].returned) /\ NoDedupApplies(1)) =>
     /\ \A i \in TargetIdx :
          /\ flow[1][i].ops = {}
          /\ flow[1][i].pc \in NotifyPcs => flow[1][i].pc = "publish"
          /\ flow[1][i].pc = "done" =>
               /\ flow[1][i].pub
               /\ \E k \in (run[1].base + 1)..Len(results) :
                    results[k].error = flow[1][i].result
     /\ (run[1].returned /\ ~run[1].lookupFailed) =>
          Len(PublishedBy(1)) = Len(run[1].targets)

C14_Witness ==
  /\ run[1].returned /\ NoDedupApplies(1) /\ Len(run[1].targets) = 2
  /\ flow[1][1].pub /\ flow[1][1].result /= None
  /\ flow[1][2].pub /\ flow[1][2].result = None
  /\ Len(PublishedBy(1)) = 2

\* ---- C15
\* C15: the window a running test has is the worker default exactly when the
\* test has no dedupDuration, no periodDuration and the default is positive,
\* and its own dedupDuration otherwise; a period-test without dedupDuration
\* makes no dedup key operation, publishes the Result of every goroutine and
\* none of its Results has isDedup or recovered set.
C15_DefaultDedup ==
  (run[1].active \/ run[1].returned) =>
    LET t == run[1].tst
        default == t.dedup = Nil /\ t.period = Nil /\ flags.DedupDuration > 0
    IN
    /\ default => run[1].dedup = flags.DedupDuration
    /\ ~default => run[1].dedup = t.dedup
    /\ (t.period /= Nil /\ t.dedup = Nil) =>
         /\ \A i \in TargetIdx :
              /\ flow[1][i].ops = {}
              /\ flow[1][i].pc = "done" => flow[1][i].pub
         /\ \A r \in Range(PublishedBy(1)) : ~r.isDedup /\ ~r.recovered

\* a period-test without dedupDuration on a worker with a default window has
\* published two alerts in a row
C15_Witness ==
  /\ run[1].returned /\ flags.DedupDuration > 0
  /\ run[1].tst.period /= Nil /\ run[1].tst.dedup = Nil
  /\ run[1].dedup = Nil
  /\ Len(results) = 2 /\ run[1].base = 1
  /\ IsAlert(results[1]) /\ IsAlert(results[2]) /\ ~results[2].isDedup

\* ---- C16
\* the threshold (percent) of the period-test worker w runs
Threshold(w) ==
  IF run[w].tst.periodThreshold /= Nil THEN run[w].tst.periodThreshold
  ELSE flags.PeriodTestThreshold

\* the error text for the counts the period-test specification reaches
ExpectedPeriodError(fail, total) ==
  IF fail = 1 /\ total = 1 THEN "1 tests failed out of 1 (100.00%)"
  ELSE IF fail = 1 /\ total = 2 THEN "1 tests failed out of 2 (50.00%)"
  ELSE IF fail = 2 /\ total = 2 THEN "2 tests failed out of 2 (100.00%)"
  ELSE IF fail = 1 /\ total = 3 THEN "1 tests failed out of 3 (33.33%)"
  ELSE IF fail = 2 /\ total = 3 THEN "2 tests failed out of 3 (66.67%)"
  ELSE IF fail = 3 /\ total = 3 THEN "3 tests failed out of 3 (100.00%)"
  ELSE "?"

\* C16: the aggregated result of a period-test goroutine is a failure iff
\* fail/total is strictly greater than the threshold, with the error
\* "<fail> tests failed out of <total> (<pct>%)"; with no iteration it is a
\* success.
C16_PeriodAggregate ==
  \A i \in TargetIdx :
    LET f == flow[1][i]
        total == f.countFail + f.countSuccess
    IN
    (run[1].tst.period /= Nil /\ f.pc \in ({"pend", "done"} \cup NotifyPcs)) =>
      /\ f.c = total
      /\ total = 0 => f.result = None
      /\ total > 0 =>
           /\ (f.result /= None) <=> (f.countFail * 100 > Threshold(1) * total)
           /\ f.result /= None =>
                f.result = ExpectedPeriodError(f.countFail, total)

\* one failure out of two with a threshold of 50%: a success
C16_Witness ==
  LET f == flow[1][1] IN
  /\ run[1].tst.period /= Nil /\ f.pc = "done" /\ f.pub
  /\ f.countFail = 1 /\ f.countSuccess = 1 /\ Threshold(1) = 50
  /\ f.result = None
  /\ results[Len(results)].error = None

\* ---- C17
\* every handler invocation of a period-test goroutine is one iteration: no
\* retry loop, no retry-delay sleep
SingleShots(f) ==
  /\ f.attempt = 0 /\ f.maxAttempts = 0
  /\ \A k \in 1..Len(f.log) : f.log[k].ev = "call"
  /\ Len(f.log) = f.countFail + f.countSuccess

\* C17 as stated: a period-test that has returned has published exactly one
\* Result per probed target, and its goroutines made single-shot iterations
\* only.
C17_Original ==
  (run[1].returned /\ ~run[1].lookupFailed /\ run[1].tst.period /= Nil) =>
     /\ Len(PublishedBy(1)) = Len(run[1].targets)
     /\ \A i \in 1..Len(run[1].targets) : SingleShots(flow[1][i])

\* C17 amended: exactly one Result per probed target when the period-test
\* has no dedupDuration, at most one when it has; single-shot iterations in
\* both cases.
C17_PeriodResults ==
  (run[1].returned /\ ~run[1].lookupFailed /\ run[1].tst.period /= Nil) =>
     /\ run[1].tst.dedup = Nil => Len(PublishedBy(1)) = Len(run[1].targets)
     /\ Len(PublishedBy(1)) <= Len(run[1].targets)
     /\ \A i \in 1..Len(run[1].targets) : SingleShots(flow[1][i])

C17_Witness ==
  /\ run[1].returned /\ run[1].tst.period /= Nil /\ run[1].tst.dedup = Nil
  /\ Len(run[1].targets) = 2 /\ Len(PublishedBy(1)) = 2
  /\ Len(flow[1][1].log) = 2 /\ Len(flow[1][2].log) = 1

\* ---- C18
\* C18: what is published for a target is what its goroutine would publish
\* had it run alone.  For a test with a dedup window that was entered with
\* no dedup key of its fingerprint set, that is an alert with isDedup=false
\* for a failed target and a Result with recovered=false for a passed one,
\* whatever the other targets did.
C18_TargetsIndependent ==
  (run[1].returned /\ ~run[1].lookupFailed /\ run[1].dedup /= Nil
     /\ run[1].fresh) =>
    \A i \in 1..Len(run[1].targets) :
      LET f == flow[1][i] IN
      /\ f.result /= None => (f.pub /\ ~f.isDedup)
      /\ f.result = None => (f.pub /\ ~f.recovered)

\* ---- C19
\* C19: when runTest has returned, every goroutine it started has finished
\* and pushed its Result; and while the popper of a slot is at the pop or
\* holds a popped job, the slot is not inside runTest: the call before it has
\* returned (or the slot has run no test yet) and no goroutine of the slot is
\* still running.
C19_ResultsBeforeNextPop ==
  \A w \in ActiveSlots :
    /\ run[w].returned =>
         \A i \in 1..Len(run[w].targets) :
           /\ flow[w][i].pc = "done" /\ flow[w][i].pub
           /\ \E k \in (run[w].base + 1)..Len(results) :
                results[k].by = w /\ results[k].error = flow[w][i].result
    /\ pool[w].pop \in {"blpop", "check2", "send", "requeue"} =>
         /\ ~run[w].active
         /\ run[w].returned \/ run[w] = IdleRun
         /\ \A i \in TargetIdx : flow[w][i].pc \in {"idle", "done"}

\* the slot has popped job 2 after the two Results of job 1 were pushed
C19_Witness ==
  /\ pool[1].pop = "check2" /\ pool[1].held.id = 2
  /\ run[1].returned /\ Len(run[1].targets) = 2
  /\ Len(results) = 2
  /\ flow[1][1].pub /\ flow[1][2].pub

\* ---- C20
\* C20: once the interrupt has been delivered, every worker slot eventually
\* leaves workerLoop (or the process has ended), also a slot whose popper is
\* blocked in BLPop on an empty overseer.jobs, and wherever the slot's
\* goroutines were when the interrupt arrived.
C20_EventuallyExits ==
  sig ~> (\/ proc /= "running"
          \/ \A w \in ActiveSlots : pool[w].main = "exited")

\* ---- C21
\* C21: a slot whose main loop is inside runTest when the interrupt arrives
\* pops no job after the interrupt, and the process does not end before that
\* slot's workerLoop has returned
C21_RunningSlotDrains ==
  /\ [](\A w \in ActiveSlots :
          (pool[w].atSig /\ proc # "running") => pool[w].main = "exited")
  /\ [][\A w \in ActiveSlots :
          pool[w].atSig => ~(pool[w].pop = "blpop" /\ pool'[w].pop = "check2")]_vars

\* ---- C22
\* the number of jobs slot w has popped and neither finished nor requeued
InFlight(w) ==
  (IF pool[w].held # NoJob THEN 1 ELSE 0) + (IF pool[w].cur # NoJob THEN 1 ELSE 0)

\* C22: a worker slot holds at most one job that is popped and neither
\* finished nor requeued, the slots together hold at most Parallel such jobs,
\* and a slot whose popper is at the pop holds none: its main loop has sent
\* on workerAvailableChan after the job before and waits for the next one
\* (or has left its loop because testObjectChan was closed).
C22_OneJobPerSlot ==
  /\ \A w \in Slots :
        /\ InFlight(w) <= 1
        /\ w \notin ActiveSlots => InFlight(w) = 0
        /\ pool[w].pop = "blpop" =>
              /\ InFlight(w) = 0
              /\ pool[w].main \in {"recvObj", "exited"}
              /\ ~run[w].active
  /\ InFlight(1) + InFlight(2) <= flags.Parallel

\* two slots, each with a job in flight: one inside runTest, one just popped
C22_Witness ==
  /\ flags.Parallel = 2
  /\ pool[1].main = "running" /\ pool[1].cur.id = 1 /\ run[1].active
  /\ pool[2].pop = "check2" /\ pool[2].held.id = 2

\* ---- C23
\* C23 as stated: when the name resolution of the target fails, runTest
\* publishes exactly one Result, with the error "failed to resolve name
\* <host>", invokes the handler zero times, and returns.
C23_Original ==
  (run[1].returned /\ run[1].tst.resolves /\ ~run[1].tst.lookupOk) =>
     /\ Len(PublishedBy(1)) = 1
     /\ PublishedBy(1)[1].error = "failed to resolve name host"
     /\ \A i \in TargetIdx : Calls(flow[1][i]) = <<>>

\* C23 amended: the handler is invoked zero times and runTest returns; the
\* one Result with the error "failed to resolve name <host>" is published
\* when the test has no dedup window (explicit or worker default); with a
\* window at most one such Result is published, none when the alert is
\* suppressed.
C23_ResolveFailure ==
  (run[1].returned /\ run[1].tst.resolves /\ ~run[1].tst.lookupOk) =>
     /\ Len(PublishedBy(1)) <= 1
     /\ EffectiveDedup(run[1].tst, flags) = Nil => Len(PublishedBy(1)) = 1
     /\ \A r \in Range(PublishedBy(1)) :
           /\ r.error = "failed to resolve name host"
           /\ r.target = run[1].tst.target
     /\ run[1].targets = <<>> /\ run[1].loopIdx = 0
     /\ \A i \in TargetIdx : Calls(flow[1][i]) = <<>>

C23_Witness ==
  /\ run[1].returned /\ run[1].tst.resolves /\ ~run[1].tst.lookupOk
  /\ run[1].tst.target = "host"
  /\ EffectiveDedup(run[1].tst, flags) = Nil
  /\ Len(PublishedBy(1)) = 1
  /\ PublishedBy(1)[1].error = "failed to resolve name host"

\* ---- C24
\* C24: when runTest is called with a test whose type names no registered
\* protocol handler, the worker keeps running (the slot can go on to its
\* next job) and the call, once returned, has published exactly one Result,
\* which carries an error.
C24_MissingHandler ==
  (run[1].tst # NoTest /\ ProtocolHandler(run[1].tst.type) = None) =>
     /\ proc = "running"
     /\ run[1].returned =>
           /\ Len(PublishedBy(1)) = 1
           /\ PublishedBy(1)[1].error # None

\* ---- C25
\* a handler invocation of goroutine i of slot w has panicked
Panicked(w, i) ==
  \E k \in 1..Len(flow[w][i].log) : flow[w][i].log[k].ev = "panic"

\* C25: a panic of a handler invocation does not end the worker: the process
\* keeps running (so that the other slots and the following jobs go on), and
\* the Result the goroutine publishes carries the error "handler panicked".
C25_PanicCaught ==
  \A i \in TargetIdx :
     Panicked(1, i) =>
        /\ proc = "running"
        /\ flow[1][i].pub =>
              \E r \in Range(PublishedBy(1)) : r.error = "handler panicked"

\* ---- C26
\* the address family of a resolved address is enabled on the worker
FamilyEnabled(a) == IF a.v4 THEN flags.IPv4 ELSE flags.IPv6

\* the number of enabled addresses among the first k resolved addresses
Rank(ips, k) == Cardinality({j \in 1..k : FamilyEnabled(ips[j])})

\* C26: for a handler that resolves host names and a successful resolution,
\* the probed-target list holds exactly the resolved addresses of the enabled
\* families (an address with an IPv4 form is IPv4, any other IPv6), in the
\* resolver's order, cut to the first maxTargetsCount entries when that
\* option is greater than 0; for a handler that does not resolve, the list
\* is the single element spec.target.
C26_ProbedTargets ==
  LET t == run[1].tst
      T == run[1].targets
      n == Rank(t.ips, Len(t.ips))
      m == IF t.maxTargetsCount > 0 /\ n > t.maxTargetsCount
           THEN t.maxTargetsCount ELSE n
  IN  ((run[1].active \/ run[1].returned) /\ ProtocolHandler(t.type) # None
       /\ (t.resolves => t.lookupOk)) =>
         IF t.resolves
         THEN /\ Len(T) = m
              /\ \A k \in 1..Len(t.ips) :
                    (FamilyEnabled(t.ips[k]) /\ Rank(t.ips, k) <= m) =>
                       T[Rank(t.ips, k)] = t.ips[k].ip
         ELSE T = <<t.target>>

\* IPv4 is disabled: of the addresses 10.0.0.1 and fe80::1 only the second is
\* probed
C26_Witness ==
  /\ run[1].active /\ run[1].tst.resolves /\ run[1].tst.lookupOk
  /\ run[1].tst.ips = <<A4, A6>> /\ ~flags.IPv4 /\ flags.IPv6
  /\ run[1].targets = <<"fe80::1">>
  /\ Calls(flow[1][1]) # <<>>

\* ---- C27
\* C27: when runTest has returned for a test without dedup window, every
\* probed target was handed to the handler by exactly one goroutine, which
\* probed nothing else, and exactly one of the published Results carries
\* that target.
C27_EachTargetOnce ==
  (run[1].returned /\ ~run[1].lookupFailed /\ run[1].dedup = Nil) =>
     \A k \in 1..Len(run[1].targets) :
        /\ Calls(flow[1][k]) # <<>>
        /\ \A e \in Range(Calls(flow[1][k])) : e.target = run[1].targets[k]
        /\ Cardinality({j \in 1..Len(PublishedBy(1)) :
                          PublishedBy(1)[j].target = run[1].targets[k]}) = 1

\* ---- C28
\* C28: on every published Result, recovered = true implies that the error
\* is absent, and isDedup = true implies that the error is present.
C28_FlagsAndError ==
  \A k \in 1..Len(results) :
     /\ results[k].recovered => results[k].error = None
     /\ results[k].isDedup => results[k].error # None

\* an alert, and after the window a second alert of the same failure, which
\* is marked isDedup
C28_Witness ==
  /\ Len(results) = 2
  /\ results[1].error # None /\ ~results[1].isDedup
  /\ results[2].error # None /\ results[2].isDedup /\ ~results[2].recovered

\* ---- C29
\* the handler invocations of a goroutine that returned an error
FailedCalls(f) == {k \in 1..Len(Calls(f)) : Calls(f)[k].res # None}

\* C29: the Result a goroutine has published carries details exactly when
\* the test is a period-test and at least one of the goroutine's iterations
\* failed, whatever the verdict; the details then hold one line per failed
\* iteration. The Result of a test that is not a period-test carries none.
C29_Details ==
  \A i \in TargetIdx :
     LET f == flow[1][i] IN
     (run[1].tst # NoTest /\ f.pub) =>
        /\ \E r \in Range(PublishedBy(1)) :
              r.error = f.result /\ r.details = f.details
        /\ f.details.present <=>
              (run[1].tst.period # Nil /\ FailedCalls(f) # {})
        /\ Len(f.details.lines) = IF run[1].tst.period # Nil
                                   THEN Cardinality(FailedCalls(f)) ELSE 0
        /\ \A r \in Range(PublishedBy(1)) :
              run[1].tst.period = Nil => ~r.details.present

\* one of two iterations failed, the verdict under the threshold of 50 % is
\* success, and the Result carries the line of the failed iteration
C29_Witness ==
  LET f == flow[1][1] IN
  /\ run[1].tst.period # Nil /\ f.pc = "done" /\ f.pub
  /\ Len(Calls(f)) = 2 /\ Cardinality(FailedCalls(f)) = 1
  /\ f.result = None
  /\ results[Len(results)].error = None
  /\ results[Len(results)].details.present
  /\ Len(results[Len(results)].details.lines) = 1

\* ---- C30
\* the pause between the iterations of the period-test of slot 1
SleepOf(t) == IF t.periodSleep = 0 THEN flags.PeriodTestSleep ELSE t.periodSleep

Floor(d, s) == d \div s

Ceil(d, s) == (d + s - 1) \div s

\* C30 as stated: a period-test goroutine that has left its loop has invoked
\* the handler at least floor(d/s) - 1 and at most ceil(d/s) + 1 times,
\* whatever time the invocations took.
C30_Original ==
  \A i \in TargetIdx :
     LET f == flow[1][i]
         t == run[1].tst
     IN  (t.period # Nil /\ f.pc \in ({"pend", "done"} \cup NotifyPcs)) =>
            /\ Len(Calls(f)) >= Floor(t.period, SleepOf(t)) - 1
            /\ Len(Calls(f)) <= Ceil(t.period, SleepOf(t)) + 1

\* C30 amended: at most ceil(d/s) + 1 invocations per probed target, at any
\* moment of the period-test; no lower bound holds for every invocation time.
C30_IterationBound ==
  \A i \in TargetIdx :
     LET f == flow[1][i]
         t == run[1].tst
     IN  (t.period # Nil /\ f.pc # "idle") =>
            Len(Calls(f)) <= Ceil(t.period, SleepOf(t)) + 1

\* a period of 3 s with a pause of 1 s: three iterations when the
\* invocations take no time
C30_Witness ==
  LET f == flow[1][1] IN
  /\ run[1].tst.period = 3 /\ SleepOf(run[1].tst) = 1
  /\ f.pc = "done" /\ f.pub
  /\ Len(Calls(f)) = 3

\* ---- C31
\* C31: both dedup keys live for 10 x dedupDuration from their last write; a
\* failing execution leaves cache-time written at or after its own start;
\* and a failing execution that follows a failing one with no execution in
\* between, 10 x dedupDuration or longer after the notify call of that one
\* (which began at prev.at and lasted at most MaxNotifyTicks), finds both
\* keys absent and is published as an alert with isDedup=false.
C31_ExpiredKeysFreshAlert ==
  LET f == flow[1][1]
      h == FlowHash(1)
  IN
  /\ \A k \in {cacheT[h], lastT[h]} :
        k.set => /\ k.exp = k.val + SeqTTL
                 /\ Live(k).set <=> now < k.val + SeqTTL
  /\ (f.pc = "done" /\ f.result # None) =>
        /\ cacheT[h].set /\ cacheT[h].val >= f.time
        /\ (f.prev.out = "fail"
            /\ f.time >= f.prev.at + MaxNotifyTicks + SeqTTL) =>
              /\ ~f.hadCache /\ ~f.hadLast
              /\ f.pub /\ ~f.isDedup
              /\ results[Len(results)].error # None
              /\ ~results[Len(results)].isDedup

\* a failure more than 20 s after the failure before it, alerted afresh
C31_Witness ==
  LET f == flow[1][1] IN
  /\ f.pc = "done" /\ f.result # None /\ f.prev.out = "fail"
  /\ f.time >= f.prev.at + MaxNotifyTicks + SeqTTL
  /\ Len(results) = 2 /\ ~results[2].isDedup /\ results[2].error # None

\* ---- C32
\* the main loop of slot w leaves the parse of a payload the parser rejects
RejectStep(w) ==
  /\ pool[w].main = "parse" /\ ~pool[w].cur.valid
  /\ pool'[w].main # "parse"

\* C32: the step in which the main loop of a slot handles a popped payload
\* that the parser rejects publishes no Result, starts no test, puts nothing
\* back on overseer.jobs and leaves the process running; the slot drops the
\* payload and stands at the exit check that precedes its next
\* workerAvailableChan send. A rejected payload is never executed: a slot is
\* inside runTest only with a payload that parsed.
C32_RejectedJobDiscarded ==
  /\ [][\A w \in ActiveSlots :
          RejectStep(w) =>
             /\ results' = results /\ jobs' = jobs /\ proc' = proc
             /\ run'[w] = run[w] /\ executed' = executed
             /\ pool'[w].main = "check3" /\ pool'[w].cur = NoJob
             /\ pool'[w].held = pool[w].held]_vars
  /\ [](\A w \in ActiveSlots :
          pool[w].main = "running" => pool[w].cur.valid)

\* one slot, no interrupt: job 1 was rejected and is gone, and the slot has
\* gone on to pop and execute job 2
C32_Witness ==
  /\ flags.Parallel = 1 /\ ~sig /\ proc = "running"
  /\ executed = {2} /\ jobs = <<>>
  /\ pool[1].held = NoJob
  /\ run[1].returned /\ Len(results) = 1

\* ---- C33
\* C33: when Execute has returned and the process has ended, no popper
\* goroutine holds a job that it has popped and neither handed to the main
\* loop nor pushed back to overseer.jobs.
C33_NoJobHeldAtExit ==
  proc = "exited" =>
     \A w \in ActiveSlots :
        ~(pool[w].pop \in {"check2", "send", "requeue"} /\ pool[w].held # NoJob)

\* ---- C34
\* C34: the worker never dies of a send on a closed channel: when the
\* process has panicked, no popper stands at its send on a closed
\* testObjectChan and no main loop at its send on a closed
\* workerAvailableChan.
C34_NoSendOnClosed ==
  proc = "panicked" =>
     \A w \in ActiveSlots :
        /\ ~(pool[w].pop = "send" /\ pool[w].obj = "closed")
        /\ ~(pool[w].main = "sendAvail" /\ pool[w].avail = "closed")

\* ---- C35
\* C35: a notify call whose RPush failed has left the dedup state as it
\* found it: it has written no last-alert-time and has deleted neither
\* cache-time nor last-alert-time.
C35_FailedPushKeepsDedup ==
  LET f == flow[1][1] IN
  (f.pc = "done" /\ f.pushErr) =>
     /\ f.lat = Nil
     /\ f.ops \cap {"setlast", "clearcache", "clearlast"} = {}

\* ---- C36
\* C36: a non-period goroutine that has published a Result without an error
\* has invoked the handler against the target of that Result and got a
\* success from it, in this execution.
C36_SuccessHasPassingCall ==
  \A i \in TargetIdx :
     LET f == flow[1][i] IN
     (run[1].tst.period = Nil /\ f.pc = "done" /\ f.pub /\ f.result = None) =>
        \E e \in Range(Calls(f)) : e.res = None /\ e.target = f.target

\* ---- C37
\* C37: at no moment are two goroutines of one runTest call inside the
\* writes of testEndFn to the metrics map, and when runTest has passed
\* wg.Wait() to read the map no goroutine is inside them.
C37_MetricsExclusive ==
  /\ Cardinality({i \in TargetIdx : flow[1][i].inMetrics}) <= 1
  /\ run[1].returned => \A i \in TargetIdx : ~flow[1][i].inMetrics

\* ---- C38
\* C38: the bridge sends a Result to Slack exactly when the Result has an
\* error, or SendTestSuccess is set, or SendTestRecovered is set and the
\* Result is recovered; a recovered Result that is sent has the title
\* "Error Recovered"; every other Result is dropped; and process never
\* panics.
C38_BridgePosts ==
  LET l == bridge.last IN
  l.out # "nothing" =>
     /\ l.out # "panic"
     /\ (l.out = "posted") <=>
           \/ l.res.error # None
           \/ bridge.SendTestSuccess
           \/ bridge.SendTestRecovered /\ l.res.recovered
     /\ (l.out = "posted" /\ l.res.recovered) =>
           l.title = ":white_check_mark: *Error Recovered*"
     /\ l.out # "posted" => l.out = "dropped"

\* ---- C39
\* an expiration argument of the documented forms: a number, a number
\* followed by d or by h
Number(str) == str # <<>> /\ \A k \in 1..Len(str) : IsDigit(str[k])

Front(str) == SubSeq(str, 1, Len(str) - 1)

Documented(str) ==
  \/ Number(str)
  \/ Len(str) > 1 /\ Number(Front(str)) /\ str[Len(str)] \in {"d", "h"}

\* the period in hours the documentation gives to an argument
DocumentedPeriod(str) ==
  IF str = <<>> THEN 14 * 24
  ELSE IF Number(str) THEN 24 * DecimalValue(str)
  ELSE IF str[Len(str)] = "d" THEN 24 * DecimalValue(Front(str))
  ELSE DecimalValue(Front(str))

\* C39: for an https test that passed its other checks and whose
\* certificate could be read, RunTest returns nil when the expiration
\* argument is "any", and otherwise fails exactly when the hours left are
\* fewer than the period: 14 days without argument, n days for "<n>d" and
\* for a bare "<n>", n hours for "<n>h".
C39_ExpirationPeriod ==
  LET t == httpTest IN
  (t.state = "returned" /\ t.https /\ ~t.errExpire) =>
     /\ t.expiration = AnyArg => t.result = None
     /\ (t.expiration = <<>> \/ Documented(t.expiration)) =>
           (t.result # None <=> t.hours < DocumentedPeriod(t.expiration))

\* ---- C40
\* the handler calls and the Notify calls made for targets[k]
CallsFor(k) == SelectSeq(legacy.calls, LAMBDA c : c.i = k)

NotifiedFor(k) == SelectSeq(legacy.notified, LAMBDA c : c.i = k)

\* C40: run_test never runs the handler more than 5 times for a target,
\* nor more than once when opts.Retry is false, nor again after a success;
\* when it returns every target had at least one handler call and, if a
\* notifier was given, exactly one Notify call, with the probed address as
\* target and the result of the last handler call; without notifier there
\* is no Notify call; when the lookup failed the handler was not run and
\* Notify was called once.
C40_LegacyRunTest ==
  LET l == legacy IN
  /\ \A k \in 1..Len(l.targets) :
        LET cs == CallsFor(k) IN
        /\ Len(cs) <= 5
        /\ ~l.Retry => Len(cs) <= 1
        /\ \A j \in 1..Len(cs) :
              /\ cs[j].target = l.targets[k]
              /\ j < Len(cs) => cs[j].res # None
  /\ ~l.notifier => l.notified = <<>>
  /\ l.pc = "returned" =>
        /\ Len(l.calls) >= Len(l.targets)
        /\ \A k \in 1..Len(l.targets) :
              LET cs == CallsFor(k)
                  ns == NotifiedFor(k)
              IN /\ Len(cs) >= 1
                 /\ l.notifier =>
                       /\ Len(ns) = 1
                       /\ ns[1].target = l.targets[k]
                       /\ ns[1].res = cs[Len(cs)].res
        /\ (~l.tst.http /\ ~l.tst.resolves) =>
              /\ l.calls = <<>>
              /\ l.notifier =>
                    /\ Len(l.notified) = 1
                    /\ l.notified[1].target = l.tst.target
                    /\ l.notified[1].res # None
        /\ (l.tst.http \/ l.tst.resolves) =>
              Len(l.notified) = (IF l.notifier THEN Len(l.targets) ELSE 0)

\* run_test has returned after five failing handler calls for the first of
\* two addresses, with retries and a notifier
C40_Witness ==
  /\ legacy.pc = "returned"
  /\ legacy.Retry /\ legacy.notifier
  /\ Len(legacy.targets) = 2
  /\ Len(CallsFor(1)) = 5
  /\ Len(legacy.notified) = 2

====
